---- MODULE Spec2Model ----
(***************************************************************************)
(* State-machine model of the request flow of src/App.tsx (handleConvert   *)
(* and the background image batches it starts) over the generation tasks   *)
(* of src/services/geminiService.ts.                                       *)
(*                                                                         *)
(* One model step is one synchronous segment of JavaScript: from a user    *)
(* event or the resolution of an awaited promise up to the next await.     *)
(* React state updates issued inside one segment are applied together.     *)
(* Array indices are 1-based here and 0-based in the source.               *)
(*                                                                         *)
(* SpecService models one call of withModelFallback around withRetry       *)
(* (src/services/geminiService.ts lines 10-116): the attempts, the backoff *)
(* timers and the cooldown between candidate models.  In Spec a primary or *)
(* image call is a single step that settles either way.                    *)
(*                                                                         *)
(* SpecParse models what a text task's fn does with one backend response:  *)
(* parseAIResponse (lines 118-132) and the prompt list of                  *)
(* generateResearchContent (lines 256-265).  A response text is a sequence *)
(* of tokens: fence markers, braces, commas, prose, whitespace, object     *)
(* members and scalar JSON values.                                         *)
(***************************************************************************)
EXTENDS Integers, Sequences, FiniteSets, TLC

\* ---------------------------------------------------------------- bounds
MaxRequests == 2
MaxSteps == 2
MaxAttempts == 3
MaxModels == 2
MaxCoreLen == 3
MaxPadLen == 104

\* ------------------------------------------------------ program constants
GalleryCount == 3
SimImageCount == 3
CooldownMs == 6000
QuotaBaseDelay == 8000
NetworkBaseDelay == 2000
JitterMs == 1000
QuotaFallbackDelay == 8000
OtherFallbackDelay == 1000
TextRetries == 3
ImageRetries == 2
TruncateLen == 100
RetryLaterLen == 42
KeyMissingLen == 87
StatusPrefixLen == 15

Tabs == {"simulation", "practical", "gallery", "quiz"}
Inputs == {"", "pulp necrosis"}
Credentials == {"", "undefined", " ", "key"}

VARIABLES
    credential,      \* process.env.API_KEY
    input,           \* text field
    uploadedImage,   \* TRUE when an image is attached
    activeTab,
    errorStatus,
    apiKeyMissing,
    simulationData,
    practicalData,
    quizData,
    galleryItems,
    loading,
    messages,
    reqs,            \* one record per accepted handleConvert invocation
    crashed,         \* a state updater threw during render
    svc,             \* one call of withModelFallback(withRetry(fn))
    resp,            \* one backend response handled by a text task's fn
    failure          \* one error caught by handleConvert

vars == <<credential, input, uploadedImage, activeTab, errorStatus,
          apiKeyMissing, simulationData, practicalData, quizData,
          galleryItems, loading, messages, reqs, crashed, svc, resp, failure>>

app == <<credential, input, uploadedImage, activeTab, errorStatus,
         apiKeyMissing, simulationData, practicalData, quizData,
         galleryItems, loading, messages, reqs, crashed>>

user == <<input, uploadedImage, activeTab>>
records == <<simulationData, practicalData, quizData, galleryItems>>

\* ------------------------------------------------------------------ data
NoImg == [src |-> "none", req |-> 0, idx |-> 0]
UploadedImg == [src |-> "upload", req |-> 0, idx |-> 0]
GenImg(r, i) == [src |-> "generated", req |-> r, idx |-> i]

NullData == [kind |-> "null", req |-> 0]
EmptySimulation ==
    [data |-> NullData, url |-> NoImg, radiologyUrl |-> NoImg, explodedUrl |-> NoImg]
NullPractical == [isNull |-> TRUE, req |-> 0, practicalProtocol |-> <<>>]
NullQuiz == [isNull |-> TRUE, req |-> 0]

\* An array slot that was never assigned (a hole of a sparse array).
Hole == [req |-> 0, hasPrompt |-> FALSE, imageStatus |-> "hole", imageUrl |-> NoImg]

Trim(s) == IF s = " " THEN "" ELSE s

MessageContent(msg, upload) ==
    IF msg # "" THEN msg ELSE IF upload THEN "image analysis" ELSE "new request"

UserMessage(r, msg, upload) ==
    [role |-> "user", req |-> r, content |-> MessageContent(msg, upload)]

AssistantMessage(r) == [role |-> "assistant", req |-> r, content |-> "summary"]

\* The record of workspace `tab`.
Record(tab) ==
    CASE tab = "simulation" -> <<simulationData>>
      [] tab = "practical" -> <<practicalData>>
      [] tab = "gallery" -> <<galleryItems>>
      [] OTHER -> <<quizData>>

\* The closure of a handler that has returned holds nothing.
Finished(rq, pc) ==
    [rq EXCEPT !.pc = pc, !.i = 0, !.steps = <<>>, !.delay = 0, !.prev = <<>>]

NewRequest(tab, upload) ==
    [tab |-> tab, upload |-> upload, pc |-> "primary",
     i |-> 0, steps |-> <<>>, outcomes |-> <<>>, delay |-> 0, prev |-> Record(tab)]

\* ----------------------------------------------------------- credential
CheckApiConnection == credential # ""

CredentialUsableUntrimmed == ~(credential = "" \/ credential = "undefined")

CredentialUsable == ~(credential = "" \/ credential = "undefined" \/ Trim(credential) = "")

\* ------------------------------------------------------------ error text
MissingCredentialMsg == "API key missing"
BackendErrors ==
    {"quota exceeded", "429 too many requests", "API_KEY_INVALID",
     "failed to fetch", "no JSON in response"}

MsgHasQuota(m) == m = "quota exceeded"
MsgHas429(m) == m = "429 too many requests"
MsgHasApiKey(m) == m = "API_KEY_INVALID"

StatusFor(m) ==
    IF MsgHasQuota(m) \/ MsgHas429(m) THEN "retryLater"
    ELSE IF MsgHasApiKey(m) THEN "keyMissing"
    ELSE "generic"

\* Errors a generation task can raise under the current credential.
PrimaryErrors == IF CredentialUsable THEN BackendErrors ELSE {MissingCredentialMsg}

\* Results generateRealisticDentalImage can return (TRUE: a data URL).
ImageResults == IF CredentialUsable THEN {TRUE, FALSE} ELSE {FALSE}

\* ------------------------------------------------- service: error values
\* An error value as the service's catch blocks read it: error.message,
\* error.error.message, error.status, error.code, error.error.code ("" and 0
\* stand for an absent field).  at = <<candidate, attempt>> is the attempt that
\* produced it, <<0, 0>> when no attempt did.
Err(message, nested, status, code, ncode) ==
    [message |-> message, nested |-> nested, status |-> status, code |-> code,
     ncode |-> ncode, at |-> <<0, 0>>]

NoError == Err("", "", 0, 0, 0)
CredentialError == Err(MissingCredentialMsg, "", 0, 0, 0)

ServiceErrors ==
    { Err("quota exceeded", "", 0, 0, 0),
      Err("429 too many requests", "", 0, 0, 0),
      Err("RESOURCE_EXHAUSTED", "", 0, 0, 0),
      Err("rate limited", "", 429, 0, 0),
      Err("rate limited", "", 0, 429, 0),
      Err("", "quota exceeded", 0, 0, 429),
      Err("failed to fetch", "", 0, 0, 0),
      Err("unavailable", "", 503, 0, 0),
      Err("no JSON in response", "", 0, 0, 0),
      Err("No image data found in response", "", 0, 0, 0) }

ToLowerCase(m) ==
    CASE m = "RESOURCE_EXHAUSTED" -> "resource_exhausted"
      [] m = "no JSON in response" -> "no json in response"
      [] m = "No image data found in response" -> "no image data found in response"
      [] OTHER -> m

\* String.prototype.includes over the texts above (case-sensitive).
Includes(m, needle) ==
    <<m, needle>> \in { <<"quota exceeded", "quota">>,
                        <<"429 too many requests", "429">>,
                        <<"resource_exhausted", "resource_exhausted">>,
                        <<"failed to fetch", "failed to fetch">> }

\* isRetryableError, lines 11-17: the text and the status it looks at.
RetryableMsg(e) ==
    ToLowerCase(IF e.message # "" THEN e.message ELSE e.nested)

RetryableStatus(e) ==
    IF e.status # 0 THEN e.status ELSE IF e.code # 0 THEN e.code ELSE e.ncode

\* isRetryableError, line 20 and lines 25-31.
IsRateLimited(e) ==
    \/ RetryableStatus(e) = 429
    \/ Includes(RetryableMsg(e), "429")
    \/ Includes(RetryableMsg(e), "quota")
    \/ Includes(RetryableMsg(e), "resource_exhausted")

IsNetwork(e) ==
    \/ Includes(RetryableMsg(e), "error code: 6")
    \/ Includes(RetryableMsg(e), "failed to fetch")
    \/ Includes(RetryableMsg(e), "networkerror")
    \/ RetryableStatus(e) = 503
    \/ RetryableStatus(e) = 504

Classify(e) ==
    IF IsRateLimited(e) THEN "RateLimited"
    ELSE IF IsNetwork(e) THEN "Transient"
    ELSE "Fatal"

IsRetryableErrorAlways(e, retryOnQuota) == TRUE

IsRetryableErrorQuotaAlways(e, retryOnQuota) ==
    IF IsRateLimited(e) THEN TRUE ELSE IsNetwork(e)

IsRetryableError(e, retryOnQuota) ==
    IF IsRateLimited(e) THEN retryOnQuota ELSE IsNetwork(e)

\* withRetry, lines 96-97.
RetryIsQuota(e) ==
    LET msg == ToLowerCase(e.message) IN
    \/ Includes(msg, "quota")
    \/ Includes(msg, "429")
    \/ Includes(msg, "resource_exhausted")
    \/ e.status = 429

\* withModelFallback, line 61.
FallbackIsQuota(e) ==
    \/ Includes(e.message, "429")
    \/ Includes(ToLowerCase(e.message), "quota")

\* Math.random() * 1000 lies in [0, 1000).
Jitters == {0, 500, JitterMs - 1}

WaitTime(e, i, jitter) ==
    (IF RetryIsQuota(e) THEN QuotaBaseDelay ELSE NetworkBaseDelay) * 2^i + jitter

FallbackDelayNone(e) == 0

FallbackDelayAlwaysLong(e) == QuotaFallbackDelay

FallbackDelay(e) ==
    IF FallbackIsQuota(e) THEN QuotaFallbackDelay ELSE OtherFallbackDelay

\* What withRetry's catch block does with the error of attempt i.
RetryDecisionIgnoringClass(e, i, retries, retryOnQuota) ==
    IF i < retries - 1 THEN "backoff" ELSE "throw"

RetryDecisionOffByOne(e, i, retries, retryOnQuota) ==
    IF ~IsRetryableError(e, retryOnQuota) THEN "throw"
    ELSE IF i < retries THEN "backoff"
    ELSE "throw"

RetryDecision(e, i, retries, retryOnQuota) ==
    IF ~IsRetryableError(e, retryOnQuota) THEN "throw"
    ELSE IF i < retries - 1 THEN "backoff"
    ELSE "throw"

\* ------------------------------------------------- service: one call
Candidates == <<"A", "B", "C">>
ModelLists == {SubSeq(Candidates, 1, n) : n \in 1..MaxModels}

\* Array.prototype.indexOf, as a 1-based position.
IndexOf(models, model) ==
    CHOOSE k \in DOMAIN models :
        models[k] = model /\ \A j \in DOMAIN models : models[j] = model => k <= j

Call(models, retries, retryOnQuota, pc) ==
    [models |-> models, retries |-> retries, retryOnQuota |-> retryOnQuota,
     pc |-> pc, m |-> 0, i |-> 0, calls |-> <<>>, caught |-> NoError,
     thrown |-> <<>>, lastError |-> NoError, wait |-> 0,
     result |-> <<0, 0>>, error |-> NoError, task |-> "none",
     outcome |-> "pending"]

\* The generation tasks: a text task runs withRetry(fn, 3, true) over the
\* default candidate list, the image task withRetry(fn, 2, true) over its own.
TaskKinds == {"text", "image"}
TextModels == <<"gemini-2.5-flash", "gemini-3-flash-preview">>
ImageModels == <<"gemini-2.5-flash-image", "gemini-3-pro-image-preview">>

TaskCallUniformBudget(task) ==
    [Call(IF task = "image" THEN ImageModels ELSE TextModels, TextRetries,
          TRUE, "called") EXCEPT !.task = task]

TaskCall(task) ==
    [Call(IF task = "image" THEN ImageModels ELSE TextModels,
          IF task = "image" THEN ImageRetries ELSE TextRetries,
          TRUE, "called") EXCEPT !.task = task]

\* The errors fn can reject with: what the backend call rejects with, the
\* parse error of a text task, the no-image error of the image task.  A call
\* that is no task of the repository (task "none") may reject with any.
ParseError == Err("no JSON in response", "", 0, 0, 0)
NoImageError == Err("No image data found in response", "", 0, 0, 0)

FnErrors(task) ==
    CASE task = "image" -> ServiceErrors \ {ParseError}
      [] task = "text" -> ServiceErrors \ {NoImageError}
      [] OTHER -> ServiceErrors

\* What the caller of the task gets once withModelFallback has settled:
\* generateRealisticDentalImage catches every error and returns null.
TaskOutcomeRethrowing(s) ==
    IF s.pc = "returned" THEN "value" ELSE "error"

TaskOutcome(s) ==
    IF s.pc = "returned" THEN "value"
    ELSE IF s.task = "image" THEN "null"
    ELSE "error"

Deliver(s) == [s EXCEPT !.outcome = TaskOutcome(s)]

NoCall == Call(<<>>, 0, FALSE, "none")

\* operation(model, apiKey) runs withRetry, which calls fn(0).
StartModelKeepingAttempt(s, k) ==
    [s EXCEPT !.pc = "attempt", !.m = k, !.wait = 0,
              !.calls = Append(@, [m |-> k, model |-> s.models[k], i |-> s.i,
                                   outcome |-> "pending"])]

StartModel(s, k) ==
    [s EXCEPT !.pc = "attempt", !.m = k, !.i = 0, !.wait = 0,
              !.calls = Append(@, [m |-> k, model |-> s.models[k], i |-> 0,
                                   outcome |-> "pending"])]

\* The error withModelFallback raises once the loop is over.
FirstError(s) == s.thrown[1]

FinalError(s) == s.lastError

\* The for-of loop goes to its next candidate, or ends and throws.
NextCandidate(s) ==
    IF s.m < Len(s.models)
    THEN StartModel(s, s.m + 1)
    ELSE Deliver([s EXCEPT !.pc = "raised", !.wait = 0, !.error = FinalError(s)])

\* withModelFallback's catch block, entered with the error withRetry raised.
FallbackCatch(s, e) ==
    LET t == [s EXCEPT !.thrown = Append(@, e), !.lastError = e] IN
    IF IndexOf(s.models, s.models[s.m]) < Len(s.models)
    THEN [t EXCEPT !.pc = "cooldown", !.wait = FallbackDelay(e)]
    ELSE NextCandidate(t)

Invoke ==
    /\ svc.pc = "called"
    /\ svc' = IF ~CredentialUsable
              THEN Deliver([svc EXCEPT !.pc = "raised", !.error = CredentialError])
              ELSE StartModel(svc, 1)
    /\ UNCHANGED <<app, resp, failure>>

AttemptSucceeds ==
    /\ svc.pc = "attempt"
    /\ svc' = Deliver([svc EXCEPT !.pc = "returned", !.result = <<svc.m, svc.i>>,
                                  !.calls[Len(svc.calls)].outcome = "ok"])
    /\ UNCHANGED <<app, resp, failure>>

AttemptFails(kind, jitter) ==
    /\ svc.pc = "attempt"
    /\ kind \in FnErrors(svc.task)
    /\ jitter \in Jitters
    /\ LET e == [kind EXCEPT !.at = <<svc.m, svc.i>>]
           s == [svc EXCEPT !.caught = e,
                            !.calls[Len(svc.calls)].outcome = Classify(e)]
       IN svc' = IF RetryDecision(e, svc.i, svc.retries, svc.retryOnQuota) = "backoff"
                 THEN [s EXCEPT !.pc = "backoff", !.wait = WaitTime(e, svc.i, jitter)]
                 ELSE FallbackCatch(s, e)
    /\ UNCHANGED <<app, resp, failure>>

BackoffElapses ==
    /\ svc.pc = "backoff"
    /\ svc' = [svc EXCEPT !.pc = "attempt", !.i = @ + 1, !.wait = 0,
                          !.calls = Append(@, [m |-> svc.m,
                                               model |-> svc.models[svc.m],
                                               i |-> svc.i + 1,
                                               outcome |-> "pending"])]
    /\ UNCHANGED <<app, resp, failure>>

FallbackDelayElapses ==
    /\ svc.pc = "cooldown"
    /\ svc' = NextCandidate(svc)
    /\ UNCHANGED <<app, resp, failure>>

\* ------------------------------------------------- service: response text
\* Tokens of a response text.  FENCE is a code-fence marker, three backticks
\* with or without the word json and a line break (the regular expression at
\* line 120 matches exactly these); "m" is an
\* object member other than imagePrompts; "ip2", "ip3", "ip4" are a member
\* imagePrompts holding an array of 2, 3, 4 prompts and "ipx" one holding
\* something that is no array; "7" and "null" are scalar JSON values; the
\* text of a member or of prose holds no brace.
FENCE == "fence"
WS == " "
Members == {"m", "ip2", "ip3", "ip4", "ipx"}
CoreTokens == {"{", "}", ",", "prose", "7", "null"} \cup Members

RECURSIVE CoresOfLen(_)
CoresOfLen(n) ==
    IF n = 0 THEN {<<>>}
    ELSE {Append(c, x) : c \in CoresOfLen(n - 1), x \in CoreTokens}

Cores == UNION {CoresOfLen(n) : n \in 0..MaxCoreLen}

\* What a model puts around the payload.
Prefixes == {<<>>, <<WS>>, <<"prose">>, <<FENCE>>, <<FENCE, WS>>, <<FENCE, "prose">>}
Suffixes == {<<>>, <<WS>>, <<"prose">>, <<FENCE>>, <<WS, FENCE>>, <<"prose", FENCE>>}

\* response.text (<<>> is the empty string, and undefined).
Texts == {p \o c \o q : p \in Prefixes, c \in Cores, q \in Suffixes}

Topics == {"pulp necrosis", "Dentistry"}

\* text.replace(fence markers, '') at line 120
RemoveFences(t) == SelectSeq(t, LAMBDA x : x # FENCE)

\* String.prototype.trim
RECURSIVE TrimText(_)
TrimText(t) ==
    IF t = <<>> THEN t
    ELSE IF Head(t) = WS THEN TrimText(Tail(t))
    ELSE IF t[Len(t)] = WS THEN TrimText(SubSeq(t, 1, Len(t) - 1))
    ELSE t

\* indexOf and lastIndexOf as 1-based positions, 0 when there is none.
FirstIndex(t, c) ==
    IF \E k \in DOMAIN t : t[k] = c
    THEN CHOOSE k \in DOMAIN t : t[k] = c /\ \A j \in DOMAIN t : t[j] = c => k <= j
    ELSE 0

LastIndex(t, c) ==
    IF \E k \in DOMAIN t : t[k] = c
    THEN CHOOSE k \in DOMAIN t : t[k] = c /\ \A j \in DOMAIN t : t[j] = c => j <= k
    ELSE 0

\* cleanText.substring(firstBracket, lastBracket + 1) for the 1-based
\* positions first and last: substring swaps its arguments when the start
\* lies behind the end.
BracketSpan(t, first, last) ==
    IF first <= last + 1 THEN SubSeq(t, first, last)
    ELSE SubSeq(t, last + 1, first - 1)

\* JSON.parse: a scalar, or an object of comma-separated members; whitespace
\* between tokens is ignored.  The value of a repeated key is its last one.
ParseFailure == [ok |-> FALSE, kind |-> "error", imagePrompts |-> "absent"]
JsonValue(kind, ip) == [ok |-> TRUE, kind |-> kind, imagePrompts |-> ip]

MembersOk(b) ==
    \/ b = <<>>
    \/ /\ Len(b) % 2 = 1
       /\ \A k \in DOMAIN b : IF k % 2 = 1 THEN b[k] \in Members ELSE b[k] = ","

ImagePromptsOf(b) ==
    LET at == {k \in DOMAIN b : b[k] \in Members \ {"m"}} IN
    IF at = {} THEN "absent"
    ELSE b[CHOOSE k \in at : \A j \in at : j <= k]

JsonParse(t) ==
    LET u == SelectSeq(t, LAMBDA x : x # WS) IN
    IF u = <<"7">> THEN JsonValue("number", "absent")
    ELSE IF u = <<"null">> THEN JsonValue("null", "absent")
    ELSE IF /\ Len(u) >= 2
            /\ u[1] = "{"
            /\ u[Len(u)] = "}"
            /\ MembersOk(SubSeq(u, 2, Len(u) - 1))
         THEN JsonValue("object", ImagePromptsOf(SubSeq(u, 2, Len(u) - 1)))
    ELSE ParseFailure

\* parseAIResponse: the parsed value, or ParseFailure when it throws.
ParseAIResponse(text) ==
    IF text = <<>> THEN ParseFailure
    ELSE LET clean == TrimText(RemoveFences(text))
             first == FirstIndex(clean, "{")
             last == LastIndex(clean, "}")
         IN JsonParse(IF first # 0 /\ last # 0
                      THEN BracketSpan(clean, first, last)
                      ELSE clean)

\* Prompts: one synthesized from the topic, or entry k of the parsed array.
TopicPrompt(prefix, topic) == [origin |-> "topic", prefix |-> prefix, topic |-> topic, k |-> 0]
ParsedPrompt(k) == [origin |-> "response", prefix |-> "", topic |-> "", k |-> k]

ArrayLength(ip) ==
    CASE ip = "ip2" -> 2
      [] ip = "ip3" -> 3
      [] ip = "ip4" -> 4
      [] OTHER -> 0

\* Lines 257-263: the prompts before padding.  Reading imagePrompts of null
\* throws inside the try block and is caught like a parse error.
NoFallbackPrompts(topic) == <<>>

FallbackPrompts(topic) ==
    << TopicPrompt("Dental clinical view of ", topic),
       TopicPrompt("Anatomical diagram of ", topic),
       TopicPrompt("X-ray of ", topic) >>

ParsedPrompts(text, topic) ==
    LET json == ParseAIResponse(text) IN
    IF ~json.ok \/ json.kind = "null" THEN FallbackPrompts(topic)
    ELSE [k \in 1..ArrayLength(json.imagePrompts) |-> ParsedPrompt(k)]

\* Lines 264-265: pad with the clinical-view prompt, keep the first three.
RECURSIVE PadPrompts(_, _)
PadPrompts(prompts, topic) ==
    IF Len(prompts) < GalleryCount
    THEN PadPrompts(Append(prompts, TopicPrompt("Dental clinical view of ", topic)), topic)
    ELSE prompts

ResearchPromptsUntruncated(text, topic) ==
    PadPrompts(ParsedPrompts(text, topic), topic)

ResearchPrompts(text, topic) ==
    SubSeq(PadPrompts(ParsedPrompts(text, topic), topic), 1, GalleryCount)

\* One response handled by fn: of a text task that returns the parsed value
\* ("parse"), or of generateResearchContent ("research").
Response(task, text, topic) ==
    [pc |-> "received", task |-> task, text |-> text, topic |-> topic,
     value |-> ParseFailure, outcome |-> "pending", prompts |-> <<>>]

NoResponse == [Response("none", <<>>, "") EXCEPT !.pc = "none"]

ParseResponse ==
    /\ resp.pc = "received"
    /\ resp.task = "parse"
    /\ LET v == ParseAIResponse(resp.text) IN
       resp' = [resp EXCEPT !.pc = "done", !.value = v,
                            !.outcome = IF v.ok THEN "value" ELSE "error"]
    /\ UNCHANGED <<app, svc, failure>>

ResearchResponse ==
    /\ resp.pc = "received"
    /\ resp.task = "research"
    /\ resp' = [resp EXCEPT !.pc = "done", !.outcome = "value",
                            !.prompts = ResearchPrompts(resp.text, resp.topic)]
    /\ UNCHANGED <<app, svc, failure>>

\* --------------------------------------------------- status of a failure
\* The catch block of handleConvert over the text of the error.  A text is
\* a sequence of UTF-16 code units, one token each.
Undefined == <<"undefined">>
Pad(n) == [k \in 1..n |-> "x"]
Markers ==
    {<<>>, <<"q", "u", "o", "t", "a">>, <<"Q", "u", "o", "t", "a">>,
     <<"4", "2", "9">>, <<"A", "P", "I", "_", "K", "E", "Y">>, <<"b", "o", "o", "m">>}

\* Error messages: a marker before or after a run of other characters.
ErrorMessages ==
    {mk \o Pad(n) : mk \in Markers, n \in 0..MaxPadLen}
        \cup {Pad(n) \o mk : mk \in Markers, n \in 0..MaxPadLen}

\* Error.prototype.toString of an Error with the given message.
ErrorToString(message) ==
    IF message = <<>> THEN <<"E", "r", "r", "o", "r">>
    ELSE <<"E", "r", "r", "o", "r", ":", " ">> \o message

\* Thrown values: Error objects, and a thrown empty string, which has no
\* message and an empty toString().
ThrownValues ==
    {[message |-> m, string |-> ErrorToString(m)] : m \in ErrorMessages}
        \cup {[message |-> Undefined, string |-> <<>>]}

UnknownError == <<"U", "n", "k", "n", "o", "w", "n", " ", "E", "r", "r", "o", "r">>

\* error?.message || error?.toString() || "Unknown Error"
ErrorText(error) ==
    IF error.message # Undefined /\ error.message # <<>> THEN error.message
    ELSE IF error.string # <<>> THEN error.string
    ELSE UnknownError

LowerChar(c) ==
    CASE c = "Q" -> "q" [] c = "A" -> "a" [] c = "P" -> "p" [] c = "I" -> "i"
      [] c = "K" -> "k" [] c = "E" -> "e" [] c = "Y" -> "y" [] c = "U" -> "u"
      [] OTHER -> c

LowerText(t) == [k \in 1..Len(t) |-> LowerChar(t[k])]

TextIncludes(t, needle) ==
    \E k \in 1..(Len(t) - Len(needle) + 1) : SubSeq(t, k, k + Len(needle) - 1) = needle

\* String.prototype.substring with 0 <= start <= end.
SubstringWhole(t, start, end) == t

Substring(t, start, end) ==
    SubSeq(t, start + 1, IF end < Len(t) THEN end ELSE Len(t))

FailureClass(msg) ==
    IF \/ TextIncludes(LowerText(msg), <<"q", "u", "o", "t", "a">>)
       \/ TextIncludes(msg, <<"4", "2", "9">>)
    THEN "retryLater"
    ELSE IF TextIncludes(msg, <<"A", "P", "I", "_", "K", "E", "Y">>) THEN "keyMissing"
    ELSE "generic"

\* The three status texts.  Each code unit of the fixed parts, as the source
\* file stores them, is stood for by one token.
RetryLaterStatus == [k \in 1..RetryLaterLen |-> "r"]
KeyMissingStatus == [k \in 1..KeyMissingLen |-> "k"]
StatusPrefix == [k \in 1..StatusPrefixLen |-> "p"]
Ellipsis == <<".", ".", ".">>

StatusText(msg) ==
    CASE FailureClass(msg) = "retryLater" -> RetryLaterStatus
      [] FailureClass(msg) = "keyMissing" -> KeyMissingStatus
      [] OTHER -> StatusPrefix \o Substring(msg, 0, TruncateLen) \o Ellipsis

Failure(error) ==
    [pc |-> "caught", error |-> error, class |-> "none", status |-> <<>>]

NoFailure == [Failure([message |-> Undefined, string |-> <<>>]) EXCEPT !.pc = "none"]

\* catch block, lines 509-521.
ShowFailure ==
    /\ failure.pc = "caught"
    /\ LET msg == ErrorText(failure.error) IN
       /\ failure' = [failure EXCEPT !.pc = "shown", !.class = FailureClass(msg),
                                     !.status = StatusText(msg)]
       /\ errorStatus' = FailureClass(msg)
       /\ apiKeyMissing' = (apiKeyMissing \/ FailureClass(msg) = "keyMissing")
    /\ UNCHANGED <<credential, user, records, loading, messages, reqs, crashed, svc, resp>>

\* ------------------------------------------------------------------ init
AppInit ==
    /\ credential \in Credentials
    /\ input = ""
    /\ uploadedImage = FALSE
    /\ activeTab = "simulation"
    /\ apiKeyMissing = ~CheckApiConnection
    /\ errorStatus = IF CheckApiConnection THEN "none" ELSE "banner"
    /\ simulationData = EmptySimulation
    /\ practicalData = NullPractical
    /\ quizData = NullQuiz
    /\ galleryItems = <<>>
    /\ loading = FALSE
    /\ messages = <<>>
    /\ reqs = <<>>
    /\ crashed = FALSE

Init ==
    /\ AppInit
    /\ svc = NoCall
    /\ resp = NoResponse
    /\ failure = NoFailure

Outcome(ok) == IF ok THEN "image" ELSE "null"

\* ---------------------------------------------------------- user events
SetInput(t) ==
    /\ ~crashed
    /\ input # t
    /\ input' = t
    /\ UNCHANGED <<failure, resp, svc, credential, uploadedImage, activeTab, errorStatus, apiKeyMissing,
                   records, loading, messages, reqs, crashed>>

SetActiveTab(t) ==
    /\ ~crashed
    /\ activeTab # t
    /\ activeTab' = t
    /\ UNCHANGED <<failure, resp, svc, credential, input, uploadedImage, errorStatus, apiKeyMissing,
                   records, loading, messages, reqs, crashed>>

HandleImageUpload ==
    /\ ~crashed
    /\ activeTab = "simulation"
    /\ ~uploadedImage
    /\ uploadedImage' = TRUE
    /\ activeTab' = "simulation"
    /\ UNCHANGED <<failure, resp, svc, credential, input, errorStatus, apiKeyMissing,
                   records, loading, messages, reqs, crashed>>

RemoveUploadedImage ==
    /\ ~crashed
    /\ activeTab = "simulation"
    /\ uploadedImage
    /\ uploadedImage' = FALSE
    /\ UNCHANGED <<failure, resp, svc, credential, input, activeTab, errorStatus, apiKeyMissing,
                   records, loading, messages, reqs, crashed>>

\* ------------------------------------------- handleConvert, first segment
\* The component is mounted: handlers can be invoked.
Mounted == ~crashed

\* Variant of Refused that does not look at the in-flight flag.
RefusedIgnoringLoading == Trim(input) = "" /\ ~uploadedImage

Refused == (Trim(input) = "" /\ ~uploadedImage) \/ loading

ConvertKeyMissing ==
    /\ Mounted
    /\ apiKeyMissing
    /\ errorStatus' = "stopped"
    /\ UNCHANGED <<failure, resp, svc, credential, user, apiKeyMissing, records, loading, messages,
                   reqs, crashed>>

ConvertRefused ==
    /\ Mounted
    /\ ~apiKeyMissing
    /\ Refused
    /\ UNCHANGED vars

Accept(tab) ==
    /\ Mounted
    /\ ~apiKeyMissing
    /\ ~Refused
    /\ activeTab = tab
    /\ Len(reqs) < MaxRequests
    /\ messages' = Append(messages, UserMessage(Len(reqs) + 1, input, uploadedImage))

ConvertSimulation ==
    /\ Accept("simulation")
    /\ errorStatus' = "none"
    /\ loading' = TRUE
    /\ reqs' = Append(reqs, NewRequest("simulation", uploadedImage))
    /\ UNCHANGED <<failure, resp, svc, credential, user, apiKeyMissing, records, crashed>>

ConvertPracticalWithImage ==
    /\ Accept("practical")
    /\ uploadedImage
    /\ errorStatus' = "useSimulationTab"
    /\ loading' = FALSE
    /\ input' = ""
    /\ reqs' = Append(reqs, Finished(NewRequest("practical", TRUE), "done"))
    /\ UNCHANGED <<failure, resp, svc, credential, uploadedImage, activeTab, apiKeyMissing, records, crashed>>

ConvertPractical ==
    /\ Accept("practical")
    /\ ~uploadedImage
    /\ errorStatus' = "none"
    /\ loading' = TRUE
    /\ reqs' = Append(reqs, NewRequest("practical", FALSE))
    /\ UNCHANGED <<failure, resp, svc, credential, user, apiKeyMissing, records, crashed>>

\* Variant of ConvertGallery that keeps the previous items.
ConvertGalleryKeepingItems ==
    /\ Accept("gallery")
    /\ errorStatus' = "none"
    /\ loading' = TRUE
    /\ galleryItems' = galleryItems
    /\ reqs' = Append(reqs, NewRequest("gallery", uploadedImage))
    /\ UNCHANGED <<failure, resp, svc, credential, user, apiKeyMissing, simulationData, practicalData,
                   quizData, crashed>>

ConvertGallery ==
    /\ Accept("gallery")
    /\ errorStatus' = "none"
    /\ loading' = TRUE
    /\ galleryItems' = <<>>
    /\ reqs' = Append(reqs, NewRequest("gallery", uploadedImage))
    /\ UNCHANGED <<failure, resp, svc, credential, user, apiKeyMissing, simulationData, practicalData,
                   quizData, crashed>>

\* Variant of ConvertQuiz that does not set the in-flight flag.
ConvertQuizNotLocking ==
    /\ Accept("quiz")
    /\ errorStatus' = "none"
    /\ loading' = loading
    /\ quizData' = NullQuiz
    /\ reqs' = Append(reqs, NewRequest("quiz", uploadedImage))
    /\ UNCHANGED <<failure, resp, svc, credential, user, apiKeyMissing, simulationData, practicalData,
                   galleryItems, crashed>>

ConvertQuizClearingGallery ==
    /\ Accept("quiz")
    /\ errorStatus' = "none"
    /\ loading' = TRUE
    /\ quizData' = NullQuiz
    /\ galleryItems' = <<>>
    /\ reqs' = Append(reqs, NewRequest("quiz", uploadedImage))
    /\ UNCHANGED <<failure, resp, svc, credential, user, apiKeyMissing, simulationData, practicalData,
                   crashed>>

ConvertQuiz ==
    /\ Accept("quiz")
    /\ errorStatus' = "none"
    /\ loading' = TRUE
    /\ quizData' = NullQuiz
    /\ reqs' = Append(reqs, NewRequest("quiz", uploadedImage))
    /\ UNCHANGED <<failure, resp, svc, credential, user, apiKeyMissing, simulationData, practicalData,
                   galleryItems, crashed>>

\* Variant of PrimaryFails that resets the simulation record.
PrimaryFailsClearingRecord(r, m) ==
    /\ ~crashed
    /\ r \in DOMAIN reqs
    /\ reqs[r].pc = "primary"
    /\ m \in PrimaryErrors
    /\ errorStatus' = StatusFor(m)
    /\ apiKeyMissing' = (apiKeyMissing \/ StatusFor(m) = "keyMissing")
    /\ loading' = IF reqs[r].tab \in {"practical", "gallery"} THEN loading ELSE FALSE
    /\ input' = ""
    /\ reqs' = [reqs EXCEPT ![r] = Finished(@, "failed")]
    /\ simulationData' = EmptySimulation
    /\ UNCHANGED <<failure, resp, svc, credential, uploadedImage, activeTab, practicalData, quizData,
                   galleryItems, messages, crashed>>

PrimaryFailsAnswering(r, m) ==
    /\ ~crashed
    /\ r \in DOMAIN reqs
    /\ reqs[r].pc = "primary"
    /\ m \in PrimaryErrors
    /\ errorStatus' = StatusFor(m)
    /\ apiKeyMissing' = (apiKeyMissing \/ StatusFor(m) = "keyMissing")
    /\ loading' = IF reqs[r].tab \in {"practical", "gallery"} THEN loading ELSE FALSE
    /\ input' = ""
    /\ messages' = Append(messages, AssistantMessage(r))
    /\ reqs' = [reqs EXCEPT ![r] = Finished(@, "failed")]
    /\ UNCHANGED <<failure, resp, svc, credential, uploadedImage, activeTab, records, crashed>>

\* ------------------------------------------------ failure of a primary call
\* catch and finally blocks of handleConvert.  activeTab in the finally block
\* is the value captured when the handler was invoked.
PrimaryFails(r, m) ==
    /\ ~crashed
    /\ r \in DOMAIN reqs
    /\ reqs[r].pc = "primary"
    /\ m \in PrimaryErrors
    /\ errorStatus' = StatusFor(m)
    /\ apiKeyMissing' = (apiKeyMissing \/ StatusFor(m) = "keyMissing")
    /\ loading' = IF reqs[r].tab \in {"practical", "gallery"} THEN loading ELSE FALSE
    /\ input' = ""
    /\ reqs' = [reqs EXCEPT ![r] = Finished(@, "failed")]
    /\ UNCHANGED <<failure, resp, svc, credential, uploadedImage, activeTab, records, messages, crashed>>

\* The primary call of a practical or quiz request resolved, and reading
\* its result threw before anything was published: result.data has no
\* practicalProtocol array (line 361), or the quiz data is null (line 492).
\* The TypeError is caught like a rejection; its text has none of the words
\* the catch block looks for.
UnreadableMsg == "Cannot read properties"

PrimaryResultUnreadable(r) ==
    /\ ~crashed
    /\ r \in DOMAIN reqs
    /\ reqs[r].pc = "primary"
    /\ reqs[r].tab \in {"practical", "quiz"}
    /\ CredentialUsable
    /\ errorStatus' = StatusFor(UnreadableMsg)
    /\ loading' = IF reqs[r].tab = "practical" THEN loading ELSE FALSE
    /\ input' = ""
    /\ reqs' = [reqs EXCEPT ![r] = Finished(@, "threw")]
    /\ UNCHANGED <<failure, resp, svc, credential, uploadedImage, activeTab, apiKeyMissing, records,
                   messages, crashed>>

\* ------------------------------------------------------ simulation branch
SetSimImageReplacing(sd, i, img) ==
    CASE i = 1 -> [EmptySimulation EXCEPT !.data = sd.data, !.url = img]
      [] i = 2 -> [EmptySimulation EXCEPT !.data = sd.data, !.radiologyUrl = img]
      [] OTHER -> [EmptySimulation EXCEPT !.data = sd.data, !.explodedUrl = img]

SetSimImage(sd, i, img) ==
    CASE i = 1 -> [sd EXCEPT !.url = img]
      [] i = 2 -> [sd EXCEPT !.radiologyUrl = img]
      [] OTHER -> [sd EXCEPT !.explodedUrl = img]

AnalysisSucceeds(r) ==
    /\ ~crashed
    /\ r \in DOMAIN reqs
    /\ reqs[r].pc = "primary"
    /\ reqs[r].tab = "simulation"
    /\ reqs[r].upload
    /\ CredentialUsable
    /\ messages' = Append(messages, AssistantMessage(r))
    /\ simulationData' = [data |-> [kind |-> "analysis", req |-> r], url |-> UploadedImg,
                          radiologyUrl |-> NoImg, explodedUrl |-> NoImg]
    /\ uploadedImage' = FALSE
    /\ loading' = FALSE
    /\ input' = ""
    /\ reqs' = [reqs EXCEPT ![r] = Finished(@, "done")]
    /\ UNCHANGED <<failure, resp, svc, credential, activeTab, errorStatus, apiKeyMissing, practicalData,
                   quizData, galleryItems, crashed>>

\* The analysis resolved with a value that has no adaCompliance member: the
\* updater queued at line 297 throws when React runs it, so no entry is
\* appended and the tree is unmounted; the handler itself runs to its end.
AnalysisUnreadable(r) ==
    /\ ~crashed
    /\ r \in DOMAIN reqs
    /\ reqs[r].pc = "primary"
    /\ reqs[r].tab = "simulation"
    /\ reqs[r].upload
    /\ CredentialUsable
    /\ crashed' = TRUE
    /\ simulationData' = [data |-> [kind |-> "analysis", req |-> r], url |-> UploadedImg,
                          radiologyUrl |-> NoImg, explodedUrl |-> NoImg]
    /\ uploadedImage' = FALSE
    /\ loading' = FALSE
    /\ input' = ""
    /\ reqs' = [reqs EXCEPT ![r] = Finished(@, "threw")]
    /\ UNCHANGED <<failure, resp, svc, credential, activeTab, errorStatus, apiKeyMissing, practicalData,
                   quizData, galleryItems, messages>>

SimulationSucceedsResettingLog(r) ==
    /\ ~crashed
    /\ r \in DOMAIN reqs
    /\ reqs[r].pc = "primary"
    /\ reqs[r].tab = "simulation"
    /\ ~reqs[r].upload
    /\ CredentialUsable
    /\ simulationData' = [data |-> [kind |-> "simulation", req |-> r], url |-> NoImg,
                          radiologyUrl |-> NoImg, explodedUrl |-> NoImg]
    /\ messages' = <<AssistantMessage(r)>>
    /\ reqs' = [reqs EXCEPT ![r].pc = "image", ![r].i = 1, ![r].prev = <<>>,
                            ![r].steps = [k \in 1..SimImageCount |-> TRUE],
                            ![r].outcomes = [k \in 1..SimImageCount |-> "none"]]
    /\ UNCHANGED <<failure, resp, svc, credential, user, errorStatus, apiKeyMissing, practicalData, quizData,
                   galleryItems, loading, crashed>>

SimulationSucceeds(r) ==
    /\ ~crashed
    /\ r \in DOMAIN reqs
    /\ reqs[r].pc = "primary"
    /\ reqs[r].tab = "simulation"
    /\ ~reqs[r].upload
    /\ CredentialUsable
    /\ simulationData' = [data |-> [kind |-> "simulation", req |-> r], url |-> NoImg,
                          radiologyUrl |-> NoImg, explodedUrl |-> NoImg]
    /\ messages' = Append(messages, AssistantMessage(r))
    /\ reqs' = [reqs EXCEPT ![r].pc = "image", ![r].i = 1, ![r].prev = <<>>,
                            ![r].steps = [k \in 1..SimImageCount |-> TRUE],
                            ![r].outcomes = [k \in 1..SimImageCount |-> "none"]]
    /\ UNCHANGED <<failure, resp, svc, credential, user, errorStatus, apiKeyMissing, practicalData, quizData,
                   galleryItems, loading, crashed>>

SimImageSettles(r, ok) ==
    /\ ~crashed
    /\ r \in DOMAIN reqs
    /\ reqs[r].pc = "image"
    /\ reqs[r].tab = "simulation"
    /\ ok \in ImageResults
    /\ simulationData' = IF ok THEN SetSimImage(simulationData, reqs[r].i, GenImg(r, reqs[r].i))
                         ELSE simulationData
    /\ reqs' = [reqs EXCEPT ![r].pc = "cooldown", ![r].delay = CooldownMs,
                            ![r].outcomes[reqs[r].i] = Outcome(ok)]
    /\ UNCHANGED <<failure, resp, svc, credential, user, errorStatus, apiKeyMissing, practicalData, quizData,
                   galleryItems, loading, messages, crashed>>

SimCooldownElapses(r) ==
    /\ ~crashed
    /\ r \in DOMAIN reqs
    /\ reqs[r].pc = "cooldown"
    /\ reqs[r].tab = "simulation"
    /\ IF reqs[r].i < Len(reqs[r].steps)
       THEN /\ reqs' = [reqs EXCEPT ![r].pc = "image", ![r].i = @ + 1, ![r].delay = 0]
            /\ UNCHANGED <<loading, input>>
       ELSE /\ reqs' = [reqs EXCEPT ![r] = Finished(@, "done")]
            /\ loading' = FALSE
            /\ input' = ""
    /\ UNCHANGED <<failure, resp, svc, credential, uploadedImage, activeTab, errorStatus, apiKeyMissing,
                   records, messages, crashed>>

\* ------------------------------------------------------------ quiz branch
QuizSucceeds(r) ==
    /\ ~crashed
    /\ r \in DOMAIN reqs
    /\ reqs[r].pc = "primary"
    /\ reqs[r].tab = "quiz"
    /\ CredentialUsable
    /\ quizData' = [isNull |-> FALSE, req |-> r]
    /\ messages' = Append(messages, AssistantMessage(r))
    /\ input' = ""
    /\ loading' = FALSE
    /\ reqs' = [reqs EXCEPT ![r] = Finished(@, "done")]
    /\ UNCHANGED <<failure, resp, svc, credential, uploadedImage, activeTab, errorStatus, apiKeyMissing,
                   simulationData, practicalData, galleryItems, crashed>>

\* -------------------------------------------------------- practical branch
\* Protocols the backend can return: each step has a visualPrompt or not.
Protocols == UNION {[1..n -> BOOLEAN] : n \in 0..MaxSteps}

InitialSteps(r, proto) ==
    [k \in 1..Len(proto) |->
        [req |-> r, hasPrompt |-> proto[k],
         imageStatus |-> IF proto[k] THEN "pending" ELSE "completed",
         imageUrl |-> NoImg]]

\* Variant of NextPrompt that jumps to the last step with a visualPrompt.
NextPromptSkipping(steps, from) ==
    LET later == {k \in DOMAIN steps : k > from /\ steps[k]}
    IN IF later = {} THEN 0 ELSE CHOOSE k \in later : \A j \in later : k >= j

\* Next index after `from` whose captured step has a visualPrompt; 0 if none.
NextPrompt(steps, from) ==
    LET later == {k \in DOMAIN steps : k > from /\ steps[k]}
    IN IF later = {} THEN 0 ELSE CHOOSE k \in later : \A j \in later : k <= j

\* The updater of the 'loading' mark reads newSteps[i].imageStatus without
\* checking that the slot exists.
MarkThrows(pd, i) ==
    /\ ~pd.isNull
    /\ \/ i > Len(pd.practicalProtocol)
       \/ pd.practicalProtocol[i].imageStatus = "hole"

MarkLoading(pd, i) ==
    IF pd.isNull THEN pd
    ELSE IF pd.practicalProtocol[i].imageStatus = "pending"
         THEN [pd EXCEPT !.practicalProtocol[i].imageStatus = "loading"]
         ELSE pd

\* newSteps[i] = {...newSteps[i], imageUrl, imageStatus}: no index guard, so
\* a write past the end extends the array.
Spread(slot) ==
    IF slot.imageStatus = "hole"
    THEN [req |-> 0, hasPrompt |-> FALSE, imageStatus |-> "none", imageUrl |-> NoImg]
    ELSE slot

AssignSlot(protocol, i, item) ==
    [k \in 1..(IF i > Len(protocol) THEN i ELSE Len(protocol)) |->
        IF k = i THEN item
        ELSE IF k <= Len(protocol) THEN protocol[k] ELSE Hole]

SlotAt(protocol, i) == IF i <= Len(protocol) THEN protocol[i] ELSE Hole

WriteStep(pd, i, img) ==
    IF pd.isNull THEN pd
    ELSE [pd EXCEPT !.practicalProtocol =
            AssignSlot(@, i, [Spread(SlotAt(@, i)) EXCEPT
                                !.imageUrl = img,
                                !.imageStatus = IF img # NoImg THEN "completed" ELSE "failed"])]

\* Continue the practical loop after index `from` on record pd, the request
\* record being rq.  An updater that throws is run by React while rendering:
\* the component tree is unmounted, and the loop itself goes on to its next
\* image call.
PracticalAdvance(r, rq, pd, from) ==
    LET j == NextPrompt(rq.steps, from) IN
    IF j = 0
    THEN /\ practicalData' = pd
         /\ reqs' = [reqs EXCEPT ![r] = Finished(rq, "done")]
         /\ crashed' = crashed
    ELSE IF MarkThrows(pd, j)
    THEN /\ practicalData' = pd
         /\ reqs' = [reqs EXCEPT ![r] = [rq EXCEPT !.pc = "image", !.i = j, !.delay = 0]]
         /\ crashed' = TRUE
    ELSE /\ practicalData' = MarkLoading(pd, j)
         /\ reqs' = [reqs EXCEPT ![r] = [rq EXCEPT !.pc = "image", !.i = j, !.delay = 0]]
         /\ crashed' = crashed

PracticalSucceeds(r, proto) ==
    /\ ~crashed
    /\ r \in DOMAIN reqs
    /\ reqs[r].pc = "primary"
    /\ reqs[r].tab = "practical"
    /\ CredentialUsable
    /\ proto \in Protocols
    /\ LET published == [isNull |-> FALSE, req |-> r,
                         practicalProtocol |-> InitialSteps(r, proto)]
           j == NextPrompt(proto, 0)
       IN /\ practicalData' = IF j = 0 THEN published ELSE MarkLoading(published, j)
          /\ reqs' = [reqs EXCEPT ![r] =
                        LET rq == [@ EXCEPT !.pc = "image", !.i = j, !.steps = proto,
                                            !.prev = <<>>,
                                            !.outcomes = [k \in 1..Len(proto) |-> "none"]]
                        IN IF j = 0 THEN Finished(rq, "done") ELSE rq]
    /\ messages' = Append(messages, AssistantMessage(r))
    /\ loading' = FALSE
    /\ input' = ""
    /\ UNCHANGED <<failure, resp, svc, credential, uploadedImage, activeTab, errorStatus, apiKeyMissing,
                   simulationData, quizData, galleryItems, crashed>>

PracticalImageSettlesAlwaysCooling(r, ok) ==
    /\ ~crashed
    /\ r \in DOMAIN reqs
    /\ reqs[r].pc = "image"
    /\ reqs[r].tab = "practical"
    /\ ok \in ImageResults
    /\ LET i == reqs[r].i IN
       /\ practicalData' = WriteStep(practicalData, i, IF ok THEN GenImg(r, i) ELSE NoImg)
       /\ reqs' = [reqs EXCEPT ![r].pc = "cooldown", ![r].delay = CooldownMs,
                               ![r].outcomes[i] = Outcome(ok)]
    /\ UNCHANGED <<failure, resp, svc, credential, user, errorStatus, apiKeyMissing, simulationData,
                   quizData, galleryItems, loading, messages, crashed>>

PracticalImageSettles(r, ok) ==
    /\ ~crashed
    /\ r \in DOMAIN reqs
    /\ reqs[r].pc = "image"
    /\ reqs[r].tab = "practical"
    /\ ok \in ImageResults
    /\ LET i == reqs[r].i
           written == WriteStep(practicalData, i, IF ok THEN GenImg(r, i) ELSE NoImg)
       IN IF ok
          THEN /\ practicalData' = written
               /\ reqs' = [reqs EXCEPT ![r].pc = "cooldown", ![r].delay = CooldownMs,
                                       ![r].outcomes[i] = "image"]
               /\ crashed' = crashed
          ELSE PracticalAdvance(r, [reqs[r] EXCEPT !.outcomes[i] = "null"], written, i)
    /\ UNCHANGED <<failure, resp, svc, credential, user, errorStatus, apiKeyMissing, simulationData,
                   quizData, galleryItems, loading, messages>>

PracticalCooldownElapses(r) ==
    /\ ~crashed
    /\ r \in DOMAIN reqs
    /\ reqs[r].pc = "cooldown"
    /\ reqs[r].tab = "practical"
    /\ PracticalAdvance(r, reqs[r], practicalData, reqs[r].i)
    /\ UNCHANGED <<failure, resp, svc, credential, user, errorStatus, apiKeyMissing, simulationData,
                   quizData, galleryItems, loading, messages>>

\* ---------------------------------------------------------- gallery branch
InitialItems(r) ==
    [k \in 1..GalleryCount |-> [req |-> r, status |-> "loading", imageUrl |-> NoImg]]

\* Variant of WriteItem that records nothing when no image was produced.
WriteItemOnlyOnSuccess(items, i, img) ==
    IF i \in DOMAIN items /\ img # NoImg
    THEN [items EXCEPT ![i].imageUrl = img, ![i].status = "completed"]
    ELSE items

\* if (updated[i]) updated[i] = {...updated[i], imageUrl, status}
WriteItemAlwaysCompleted(items, i, img) ==
    IF i \in DOMAIN items
    THEN [items EXCEPT ![i].imageUrl = img, ![i].status = "completed"]
    ELSE items

WriteItem(items, i, img) ==
    IF i \in DOMAIN items
    THEN [items EXCEPT ![i].imageUrl = img,
                       ![i].status = IF img # NoImg THEN "completed" ELSE "failed"]
    ELSE items

\* Variant of GallerySucceeds that leaves the in-flight flag set.
GallerySucceedsKeepingLock(r) ==
    /\ ~crashed
    /\ r \in DOMAIN reqs
    /\ reqs[r].pc = "primary"
    /\ reqs[r].tab = "gallery"
    /\ CredentialUsable
    /\ galleryItems' = InitialItems(r)
    /\ messages' = Append(messages, AssistantMessage(r))
    /\ loading' = loading
    /\ input' = ""
    /\ reqs' = [reqs EXCEPT ![r].pc = "image", ![r].i = 1, ![r].prev = <<>>,
                            ![r].steps = [k \in 1..GalleryCount |-> TRUE],
                            ![r].outcomes = [k \in 1..GalleryCount |-> "none"]]
    /\ UNCHANGED <<failure, resp, svc, credential, uploadedImage, activeTab, errorStatus, apiKeyMissing,
                   simulationData, practicalData, quizData, crashed>>

GallerySucceeds(r) ==
    /\ ~crashed
    /\ r \in DOMAIN reqs
    /\ reqs[r].pc = "primary"
    /\ reqs[r].tab = "gallery"
    /\ CredentialUsable
    /\ galleryItems' = InitialItems(r)
    /\ messages' = Append(messages, AssistantMessage(r))
    /\ loading' = FALSE
    /\ input' = ""
    /\ reqs' = [reqs EXCEPT ![r].pc = "image", ![r].i = 1, ![r].prev = <<>>,
                            ![r].steps = [k \in 1..GalleryCount |-> TRUE],
                            ![r].outcomes = [k \in 1..GalleryCount |-> "none"]]
    /\ UNCHANGED <<failure, resp, svc, credential, uploadedImage, activeTab, errorStatus, apiKeyMissing,
                   simulationData, practicalData, quizData, crashed>>

GalleryAdvance(r, rq) ==
    IF rq.i < Len(rq.steps)
    THEN [reqs EXCEPT ![r] = [rq EXCEPT !.pc = "image", !.i = @ + 1, !.delay = 0]]
    ELSE [reqs EXCEPT ![r] = Finished(rq, "done")]

GalleryImageSettlesNoCooldown(r, ok) ==
    /\ ~crashed
    /\ r \in DOMAIN reqs
    /\ reqs[r].pc = "image"
    /\ reqs[r].tab = "gallery"
    /\ ok \in ImageResults
    /\ LET i == reqs[r].i IN
       /\ galleryItems' = WriteItem(galleryItems, i, IF ok THEN GenImg(r, i) ELSE NoImg)
       /\ reqs' = GalleryAdvance(r, [reqs[r] EXCEPT !.outcomes[i] = Outcome(ok)])
    /\ UNCHANGED <<failure, resp, svc, credential, user, errorStatus, apiKeyMissing, simulationData,
                   practicalData, quizData, loading, messages, crashed>>

GalleryImageSettles(r, ok) ==
    /\ ~crashed
    /\ r \in DOMAIN reqs
    /\ reqs[r].pc = "image"
    /\ reqs[r].tab = "gallery"
    /\ ok \in ImageResults
    /\ LET i == reqs[r].i IN
       /\ galleryItems' = WriteItem(galleryItems, i, IF ok THEN GenImg(r, i) ELSE NoImg)
       /\ reqs' = IF ok
                  THEN [reqs EXCEPT ![r].pc = "cooldown", ![r].delay = CooldownMs,
                                    ![r].outcomes[i] = "image"]
                  ELSE GalleryAdvance(r, [reqs[r] EXCEPT !.outcomes[i] = "null"])
    /\ UNCHANGED <<failure, resp, svc, credential, user, errorStatus, apiKeyMissing, simulationData,
                   practicalData, quizData, loading, messages, crashed>>

GalleryCooldownElapses(r) ==
    /\ ~crashed
    /\ r \in DOMAIN reqs
    /\ reqs[r].pc = "cooldown"
    /\ reqs[r].tab = "gallery"
    /\ reqs' = GalleryAdvance(r, reqs[r])
    /\ UNCHANGED <<failure, resp, svc, credential, user, errorStatus, apiKeyMissing, records, loading,
                   messages, crashed>>

\* ------------------------------------------------------------ specification
Requests == 1..MaxRequests

Next ==
    \/ \E t \in Inputs : SetInput(t)
    \/ \E t \in Tabs : SetActiveTab(t)
    \/ HandleImageUpload
    \/ RemoveUploadedImage
    \/ ConvertKeyMissing
    \/ ConvertRefused
    \/ ConvertSimulation
    \/ ConvertPracticalWithImage
    \/ ConvertPractical
    \/ ConvertGallery
    \/ ConvertQuiz
    \/ \E r \in Requests, m \in BackendErrors \cup {MissingCredentialMsg} : PrimaryFails(r, m)
    \/ \E r \in Requests : PrimaryResultUnreadable(r)
    \/ \E r \in Requests : AnalysisSucceeds(r)
    \/ \E r \in Requests : AnalysisUnreadable(r)
    \/ \E r \in Requests : SimulationSucceeds(r)
    \/ \E r \in Requests, ok \in BOOLEAN : SimImageSettles(r, ok)
    \/ \E r \in Requests : SimCooldownElapses(r)
    \/ \E r \in Requests : QuizSucceeds(r)
    \/ \E r \in Requests, proto \in Protocols : PracticalSucceeds(r, proto)
    \/ \E r \in Requests, ok \in BOOLEAN : PracticalImageSettles(r, ok)
    \/ \E r \in Requests : PracticalCooldownElapses(r)
    \/ \E r \in Requests : GallerySucceeds(r)
    \/ \E r \in Requests, ok \in BOOLEAN : GalleryImageSettles(r, ok)
    \/ \E r \in Requests : GalleryCooldownElapses(r)

Spec == Init /\ [][Next]_vars

\* Every step of request r other than its submission: the settling of its
\* backend calls, its timers, and the code that runs between them.
StepOf(r) ==
    \/ \E m \in BackendErrors \cup {MissingCredentialMsg} : PrimaryFails(r, m)
    \/ PrimaryResultUnreadable(r)
    \/ AnalysisSucceeds(r)
    \/ AnalysisUnreadable(r)
    \/ SimulationSucceeds(r)
    \/ \E ok \in BOOLEAN : SimImageSettles(r, ok)
    \/ SimCooldownElapses(r)
    \/ QuizSucceeds(r)
    \/ \E proto \in Protocols : PracticalSucceeds(r, proto)
    \/ \E ok \in BOOLEAN : PracticalImageSettles(r, ok)
    \/ PracticalCooldownElapses(r)
    \/ GallerySucceeds(r)
    \/ \E ok \in BOOLEAN : GalleryImageSettles(r, ok)
    \/ GalleryCooldownElapses(r)

\* Every backend call returns and every timer fires: each request's flow
\* keeps running as long as it has a step to take.
SpecLive == Init /\ [][Next]_vars /\ \A r \in Requests : WF_vars(StepOf(r))

\* One call of withModelFallback, for every credential, candidate list,
\* attempt budget and quota-retry setting, and one call of each kind of task.
ServiceInit ==
    /\ AppInit
    /\ svc \in {Call(ms, n, q, "called") :
                   ms \in ModelLists, n \in 1..MaxAttempts, q \in BOOLEAN}
               \cup {TaskCall(task) : task \in TaskKinds}
    /\ resp = NoResponse
    /\ failure = NoFailure

ServiceNext ==
    \/ Invoke
    \/ AttemptSucceeds
    \/ \E kind \in ServiceErrors, jitter \in Jitters : AttemptFails(kind, jitter)
    \/ BackoffElapses
    \/ FallbackDelayElapses

SpecService == ServiceInit /\ [][ServiceNext]_vars

\* One backend response of each shape, handled by each kind of fn.
ParseInit ==
    /\ AppInit
    /\ credential = "key"
    /\ svc = NoCall
    /\ resp \in {Response(task, text, topic) :
                    task \in {"parse", "research"}, text \in Texts, topic \in Topics}
    /\ failure = NoFailure

ParseNext ==
    \/ ParseResponse
    \/ ResearchResponse

SpecParse == ParseInit /\ [][ParseNext]_vars

\* One caught error of each shape.
StatusInit ==
    /\ AppInit
    /\ credential = "key"
    /\ svc = NoCall
    /\ resp = NoResponse
    /\ failure \in {Failure(e) : e \in ThrownValues}

StatusNext == ShowFailure

SpecStatus == StatusInit /\ [][StatusNext]_vars

TypeOK ==
    /\ loading \in BOOLEAN
    /\ Len(reqs) <= MaxRequests

\* ------------------------------------------------------------- vocabulary
Primary(r) == reqs[r].pc = "primary"
InBatch(r) == reqs[r].pc \in {"image", "cooldown"}
PrimariesOf(tab) == {r \in DOMAIN reqs : Primary(r) /\ reqs[r].tab = tab}
ImageCallsOf(tab) == {r \in DOMAIN reqs : reqs[r].pc = "image" /\ reqs[r].tab = tab}
GalleryOwner == IF galleryItems = <<>> THEN 0 ELSE galleryItems[1].req
Accepted == Len(reqs') = Len(reqs) + 1
Moves(r) == reqs'[r] # reqs[r]

\* C1: whenever the in-flight flag is set, the handler that will clear it is
\* still running: a request whose primary call has not settled, or a simulation
\* request inside its image loop.  The flag is never left set with nothing
\* running, after a failed primary call as after a successful one.
C1_FlagClearedOnceSettled ==
    loading => \E r \in DOMAIN reqs :
                  \/ Primary(r)
                  \/ reqs[r].tab = "simulation" /\ InBatch(r)

\* C2: a step of a background batch whose request is not the one that
\* published the workspace's current result leaves that result's items as
\* they are.
C2_NoStaleWrite ==
    [][\A r \in DOMAIN reqs :
          (InBatch(r) /\ Moves(r)) =>
             /\ (reqs[r].tab = "practical" /\ practicalData.req # r)
                   => practicalData' = practicalData
             /\ (reqs[r].tab = "gallery" /\ GalleryOwner # r)
                   => galleryItems' = galleryItems]_vars

\* C3 (as stated): in each workspace at most one image sub-request is in
\* flight at any time, whatever submissions were made.
C3_OneImageCallPerWorkspace ==
    \A tab \in Tabs : Cardinality(ImageCallsOf(tab)) <= 1

\* C3 (amended): inside one request's batch the sub-requests run in array
\* order, one at a time: while the batch is at index i every earlier
\* sub-request has its outcome recorded, no later one has started, and the
\* one at i is in flight exactly when its outcome is not yet recorded.
C3_BatchInOrder ==
    \A r \in DOMAIN reqs :
        InBatch(r) =>
            \A k \in DOMAIN reqs[r].steps :
                /\ (k < reqs[r].i /\ reqs[r].steps[k]) => reqs[r].outcomes[k] # "none"
                /\ k > reqs[r].i => reqs[r].outcomes[k] = "none"
                /\ k = reqs[r].i =>
                      (reqs[r].pc = "image" <=> reqs[r].outcomes[k] = "none")

\* Two batches of one workspace overlap, the later sub-request of the first
\* still in flight.
C3_Witness ==
    \E r, q \in DOMAIN reqs :
        /\ r # q
        /\ reqs[r].tab = reqs[q].tab
        /\ reqs[r].pc = "image" /\ reqs[r].i >= 2
        /\ InBatch(q)

\* C4 (as stated): a primary request in flight in one workspace does not get
\* a submission in another workspace refused.
C4_OtherWorkspaceNotRefused ==
    ( /\ \E r \in DOMAIN reqs : Primary(r) /\ reqs[r].tab # activeTab
      /\ PrimariesOf(activeTab) = {}
      /\ Trim(input) # "" ) => ~Refused

\* C4 (amended): the in-flight flag is one flag shared by the four workspaces.
\* While a primary request is in flight in any workspace the flag is set and
\* every submission is refused, so no two primary requests are ever in flight
\* together.
C4_SharedFlag ==
    /\ (\E r \in DOMAIN reqs : Primary(r)) => (loading /\ Refused)
    /\ Cardinality({r \in DOMAIN reqs : Primary(r)}) <= 1

\* A primary request is in flight while the user has a topic typed in another
\* workspace.
C4_Witness ==
    \E r \in DOMAIN reqs :
        Primary(r) /\ reqs[r].tab # activeTab /\ Trim(input) # "" /\ ~apiKeyMissing

\* C5: a workspace never has two primary requests in flight, and no step
\* taken while the in-flight flag is set creates a request, appends a chat
\* entry of a user, or issues a primary call.
C5_RefusedWhileInFlight ==
    /\ [](\A tab \in Tabs : Cardinality(PrimariesOf(tab)) <= 1)
    /\ [][loading =>
            /\ Len(reqs') = Len(reqs)
            /\ \A n \in DOMAIN messages' :
                  messages'[n].role = "user" => n \in DOMAIN messages
            /\ {r \in DOMAIN reqs' : reqs'[r].pc = "primary"}
                  \subseteq {r \in DOMAIN reqs : Primary(r)}]_vars

\* A submission is attempted while a primary call is in flight.
C5_Witness ==
    \E r \in DOMAIN reqs :
        Primary(r) /\ loading /\ Trim(input) # "" /\ ~apiKeyMissing /\ ~crashed

\* C6: when the first image sub-request of a practical or gallery batch
\* starts, the primary result of its request is published and the in-flight
\* flag is clear; a simulation request keeps the flag set through its whole
\* image loop and clears it when the loop ends.
C6_ReleasedBeforeBatch ==
    /\ [](\A r \in DOMAIN reqs : (reqs[r].tab = "simulation" /\ InBatch(r)) => loading)
    /\ [][\A r \in DOMAIN reqs :
            /\ (Primary(r) /\ reqs'[r].pc = "image" /\ reqs[r].tab = "practical") =>
                  /\ ~loading'
                  /\ ~practicalData'.isNull /\ practicalData'.req = r
            /\ (Primary(r) /\ reqs'[r].pc = "image" /\ reqs[r].tab = "gallery") =>
                  /\ ~loading'
                  /\ Len(galleryItems') = GalleryCount
                  /\ \A k \in DOMAIN galleryItems' : galleryItems'[k].req = r
            /\ (InBatch(r) /\ reqs'[r].pc = "done" /\ reqs[r].tab = "simulation") =>
                  ~loading']_vars

\* A request was accepted while the batch of an earlier practical or gallery
\* request was still running.
C6_Witness ==
    \E r, q \in DOMAIN reqs :
        r < q /\ reqs[r].tab \in {"practical", "gallery"} /\ InBatch(r) /\ Primary(q)

\* C7 (as stated): when a primary call fails, the record of the request's
\* workspace equals what it was when the request was submitted.
C7_RecordRestoredOnFailure ==
    [][\A r \in DOMAIN reqs :
          (Primary(r) /\ reqs'[r].pc = "failed") =>
              (Record(reqs[r].tab))' = reqs[r].prev]_vars

\* C7 (amended): the step in which a primary call fails writes no workspace
\* record, and neither does the acceptance of a simulation or practical
\* request.  After the failure a simulation record equals what it was at the
\* submission; the gallery items and the quiz record, cleared at acceptance,
\* are still empty.
C7_FailureWritesNothing ==
    /\ [][\A r \in DOMAIN reqs :
            (Primary(r) /\ reqs'[r].pc = "failed") =>
               /\ records' = records
               /\ reqs[r].tab = "simulation" => <<simulationData'>> = reqs[r].prev
               /\ reqs[r].tab = "gallery" => galleryItems' = <<>>
               /\ reqs[r].tab = "quiz" => quizData' = NullQuiz]_vars
    /\ [][(Accepted /\ activeTab \in {"simulation", "practical"}) =>
             (simulationData' = simulationData /\ practicalData' = practicalData)]_vars

\* A primary call failed in a workspace whose record held an earlier result
\* at the submission.
C7_Witness ==
    \E r \in DOMAIN reqs :
        /\ reqs[r].pc = "failed"
        /\ \/ reqs[r].tab = "simulation" /\ simulationData.data.kind # "null"
           \/ reqs[r].tab = "practical" /\ ~practicalData.isNull

\* C8 (as stated): while the primary call of a request is in flight, the
\* record of its workspace holds no result.
C8_NoEarlierResultInFlight ==
    \A r \in DOMAIN reqs :
        Primary(r) =>
            CASE reqs[r].tab = "simulation" -> simulationData = EmptySimulation
              [] reqs[r].tab = "practical" -> practicalData.isNull
              [] reqs[r].tab = "gallery" -> galleryItems = <<>>
              [] OTHER -> quizData = NullQuiz

\* C8 (amended): the gallery items and the quiz record are cleared when a
\* request for them is accepted and hold nothing while its primary call is in
\* flight; accepting a request leaves the simulation and practical records as
\* they are.
C8_ClearedGalleryAndQuizOnly ==
    /\ [](\A r \in DOMAIN reqs :
            /\ (Primary(r) /\ reqs[r].tab = "gallery") => galleryItems = <<>>
            /\ (Primary(r) /\ reqs[r].tab = "quiz") => quizData = NullQuiz)
    /\ [][Accepted =>
            (simulationData' = simulationData /\ practicalData' = practicalData)]_vars

\* A gallery request is in flight whose workspace held items at submission.
C8_Witness ==
    \E r \in DOMAIN reqs :
        Primary(r) /\ reqs[r].tab = "gallery" /\ reqs[r].prev # << <<>> >>
                   /\ galleryItems = <<>>

\* C9: as long as the workspace holds the result of the same primary request,
\* an item that is Completed or Failed is never written again.
C9_TerminalItemsFrozen ==
    [][/\ (~practicalData.isNull /\ practicalData'.req = practicalData.req) =>
             \A k \in DOMAIN practicalData.practicalProtocol :
                 practicalData.practicalProtocol[k].imageStatus \in {"completed", "failed"}
                    => practicalData'.practicalProtocol[k] = practicalData.practicalProtocol[k]
       /\ (galleryItems # <<>> /\ galleryItems' # <<>> /\ GalleryOwner' = GalleryOwner) =>
             \A k \in DOMAIN galleryItems :
                 galleryItems[k].status \in {"completed", "failed"}
                    => galleryItems'[k] = galleryItems[k]]_vars

\* C10: a sub-request that produces no image marks its own item Failed,
\* leaves the status and image of every other item alone (the next item may
\* go from Pending to Loading as its sub-request starts) and the batch goes
\* on to the next item.  In a batch running alone in its workspace every item
\* ends Completed with its image or Failed according to its own outcome.
Alone(r) == \A q \in DOMAIN reqs : q # r => reqs[q].tab # reqs[r].tab

C10_FailureIsolated ==
    /\ [](\A r \in DOMAIN reqs :
            /\ (reqs[r].tab = "gallery" /\ Alone(r)) =>
                 \A k \in DOMAIN reqs[r].outcomes :
                    /\ reqs[r].outcomes[k] = "image" =>
                          /\ galleryItems[k].status = "completed"
                          /\ galleryItems[k].imageUrl = GenImg(r, k)
                    /\ reqs[r].outcomes[k] = "null" =>
                          /\ galleryItems[k].status = "failed"
                          /\ galleryItems[k].imageUrl = NoImg
            /\ (reqs[r].tab = "practical" /\ Alone(r)) =>
                 \A k \in DOMAIN reqs[r].outcomes :
                    /\ reqs[r].outcomes[k] = "image" =>
                          /\ practicalData.practicalProtocol[k].imageStatus = "completed"
                          /\ practicalData.practicalProtocol[k].imageUrl = GenImg(r, k)
                    /\ reqs[r].outcomes[k] = "null" =>
                          /\ practicalData.practicalProtocol[k].imageStatus = "failed"
                          /\ practicalData.practicalProtocol[k].imageUrl = NoImg)
    /\ [][\A r \in DOMAIN reqs :
            LET i == reqs[r].i IN
            (reqs[r].pc = "image" /\ reqs[r].tab \in {"practical", "gallery"}
                                  /\ reqs'[r].outcomes # reqs[r].outcomes
                                  /\ reqs'[r].outcomes[i] = "null") =>
               /\ (\E k \in DOMAIN reqs[r].steps : k > i /\ reqs[r].steps[k])
                     => (reqs'[r].pc = "image" /\ reqs'[r].i > i)
               /\ reqs[r].tab = "gallery" =>
                     \A k \in DOMAIN galleryItems : k # i => galleryItems'[k] = galleryItems[k]
               /\ reqs[r].tab = "practical" =>
                     \A k \in DOMAIN practicalData.practicalProtocol : k # i =>
                        LET old == practicalData.practicalProtocol[k]
                            new == practicalData'.practicalProtocol[k]
                        IN \/ new = old
                           \/ /\ k = reqs'[r].i
                              /\ old.imageStatus = "pending"
                              /\ new = [old EXCEPT !.imageStatus = "loading"]]_vars

\* A gallery batch of three ran alone: its second sub-request produced no
\* image, the first and third did.
C10_Witness ==
    \E r \in DOMAIN reqs :
        /\ reqs[r].tab = "gallery" /\ Alone(r) /\ reqs[r].pc = "done"
        /\ reqs[r].outcomes = <<"image", "null", "image">>
        /\ [k \in 1..3 |-> galleryItems[k].status] = <<"completed", "failed", "completed">>

\* ---------------------------------------------------------------- C11, C12
\* Settles(r): this step is the settling of the image sub-request that batch r
\* was waiting for; its outcome is written at the batch's position.
Settles(r) ==
    /\ r \in DOMAIN reqs
    /\ reqs[r].pc = "image"
    /\ reqs'[r].outcomes # reqs[r].outcomes

\* StartsNext(r): this step issues the sub-request that follows one batch r
\* has already made.
StartsNext(r) ==
    /\ r \in DOMAIN reqs
    /\ reqs[r].i \in DOMAIN reqs[r].outcomes
    /\ reqs'[r].pc = "image"
    /\ reqs'[r].i > reqs[r].i

\* C11: in every image batch (simulation, practical, gallery), a sub-request
\* that produced an image is followed by a timer of at least 6000 ms: the
\* settling step issues no further sub-request and leaves the batch waiting on
\* that timer, and the next sub-request is issued only by the timer's expiry.
C11_CooldownAfterImage ==
    [][\A r \in DOMAIN reqs :
          /\ (Settles(r) /\ reqs'[r].outcomes[reqs[r].i] = "image") =>
                 /\ reqs'[r].pc = "cooldown"
                 /\ reqs'[r].i = reqs[r].i
                 /\ reqs'[r].delay >= 6000
          /\ (StartsNext(r) /\ reqs[r].outcomes[reqs[r].i] = "image") =>
                 /\ reqs[r].pc = "cooldown"
                 /\ reqs[r].delay >= 6000]_vars

\* A gallery batch is waiting on the timer after a sub-request that produced
\* an image, with a further sub-request still to come.
C11_Witness ==
    \E r \in DOMAIN reqs :
        /\ reqs[r].tab = "gallery"
        /\ reqs[r].pc = "cooldown"
        /\ reqs[r].i < Len(reqs[r].steps)
        /\ reqs[r].outcomes[reqs[r].i] = "image"
        /\ reqs[r].delay = CooldownMs

\* C12 as stated: in every image batch (simulation, practical, gallery), a
\* sub-request that produced no image is followed by no cooldown timer.
C12_NoCooldownAfterFailure ==
    [][\A r \in DOMAIN reqs :
          (Settles(r) /\ reqs'[r].outcomes[reqs[r].i] = "null") =>
             /\ reqs'[r].pc # "cooldown"
             /\ reqs'[r].delay = 0]_vars

\* C12, amended: a practical or gallery batch starts no timer after a
\* sub-request that produced no image (its next sub-request, if one remains,
\* is issued in the same step); the simulation batch waits 6000 ms after every
\* sub-request, whether or not it produced an image.
C12_NoCooldownOutsideSimulation ==
    [][\A r \in DOMAIN reqs :
          /\ (Settles(r) /\ reqs[r].tab \in {"practical", "gallery"}
                         /\ reqs'[r].outcomes[reqs[r].i] = "null") =>
                 /\ reqs'[r].pc # "cooldown"
                 /\ reqs'[r].delay = 0
          /\ (Settles(r) /\ reqs[r].tab = "simulation") =>
                 /\ reqs'[r].pc = "cooldown"
                 /\ reqs'[r].delay = CooldownMs]_vars

\* A practical batch went from a sub-request without an image straight to its
\* next sub-request, and a simulation batch is waiting on the timer after a
\* sub-request without an image.
C12_Witness ==
    /\ \E r \in DOMAIN reqs :
          /\ reqs[r].tab = "practical" /\ reqs[r].pc = "image" /\ reqs[r].i > 1
          /\ reqs[r].outcomes[1] = "null"
    /\ \E r \in DOMAIN reqs :
          /\ reqs[r].tab = "simulation" /\ reqs[r].pc = "cooldown"
          /\ reqs[r].outcomes[reqs[r].i] = "null"
          /\ reqs[r].delay = CooldownMs

\* ------------------------------------------------------------ C13 .. C20
\* CallsOn(k): the attempts made against the candidate at position k.
CallsOn(k) == {n \in DOMAIN svc.calls : svc.calls[n].m = k}

Attempts(k) == Cardinality(CallsOn(k))

\* AttemptFailed(class): this step is the failure of the attempt in flight,
\* with an error of the given class.
AttemptFailed(class) ==
    /\ svc.pc = "attempt"
    /\ svc'.calls[Len(svc.calls)].outcome = class

\* RetryRaises: in this step withRetry raises the error of the attempt that
\* just failed, makes no further attempt and starts no backoff timer.
RetryRaises ==
    /\ svc'.pc # "backoff"
    /\ svc'.thrown = Append(svc.thrown, svc'.caught)
    /\ svc'.caught.at = <<svc.m, svc.i>>
    /\ \A n \in DOMAIN svc'.calls : n > Len(svc.calls) => svc'.calls[n].m # svc.m

\* C13: for every attempt budget from 1 up and either quota-retry setting, an
\* attempt that fails with a Fatal error (neither rate-limit nor network
\* flavoured) makes withRetry raise that error in the same step, with no
\* backoff and no later attempt against that candidate; a Fatal failure of
\* the first attempt leaves exactly one attempt against the candidate.
C13_FatalEndsRetry ==
    /\ [][AttemptFailed("Fatal") => RetryRaises]_vars
    /\ [](\A n \in DOMAIN svc.calls :
             svc.calls[n].outcome = "Fatal" =>
                /\ \A n2 \in DOMAIN svc.calls :
                      n2 > n => svc.calls[n2].m # svc.calls[n].m
                /\ svc.calls[n].i = 0 => Attempts(svc.calls[n].m) = 1)

\* With the largest attempt budget, the first attempt against the first
\* candidate failed Fatal and withRetry raised that error after one attempt.
C13_Witness ==
    /\ svc.retries = MaxAttempts
    /\ Len(svc.thrown) >= 1
    /\ Classify(svc.thrown[1]) = "Fatal"
    /\ svc.thrown[1].at = <<1, 0>>
    /\ Attempts(1) = 1

\* C14 as stated: while withRetry waits after a retryable failure of attempt
\* i, the timer w satisfies base * 2^i <= w < base * 2^i + 1000, with base
\* 8000 for every failure isRetryableError classifies RateLimited and 2000
\* for every Transient one.
C14_BackoffByClass ==
    svc.pc = "backoff" =>
        LET base == IF Classify(svc.caught) = "RateLimited" THEN 8000 ELSE 2000
            low == base * 2^svc.i
        IN low <= svc.wait /\ svc.wait < low + 1000

\* Retryable(class): withRetry retries a failure of this class.
Retryable(class) ==
    \/ class = "Transient"
    \/ class = "RateLimited" /\ svc.retryOnQuota

\* C15: when every attempt against a candidate failed with a retryable error,
\* withRetry made exactly `retries` attempts, numbered 0 .. retries-1, and
\* raised the error of the last of them, the very error it caught there.
C15_ExhaustionRaisesLast ==
    /\ [](\A k \in DOMAIN svc.thrown :
             (\A n \in CallsOn(k) : Retryable(svc.calls[n].outcome)) =>
                /\ Attempts(k) = svc.retries
                /\ {svc.calls[n].i : n \in CallsOn(k)} = 0..(svc.retries - 1)
                /\ svc.thrown[k].at = <<k, svc.retries - 1>>
                /\ \A n \in CallsOn(k) :
                      svc.calls[n].i = svc.retries - 1 =>
                         svc.calls[n].outcome = Classify(svc.thrown[k]))
    /\ [][svc'.thrown # svc.thrown =>
             /\ svc'.thrown = Append(svc.thrown, svc'.caught)
             /\ svc'.caught.at = <<svc.m, svc.i>>]_vars

\* With a budget of three, three attempts against the first candidate failed
\* retryably (not all the same way) and withRetry raised the third error.
C15_Witness ==
    /\ svc.retries = 3
    /\ Len(svc.thrown) >= 1
    /\ Attempts(1) = 3
    /\ \A n \in CallsOn(1) : Retryable(svc.calls[n].outcome)
    /\ \E n \in CallsOn(1) : svc.calls[n].outcome # Classify(svc.thrown[1])
    /\ svc.thrown[1].at = <<1, 2>>

\* C16: with retryOnQuota false, the first RateLimited failure makes withRetry
\* raise that error in the same step with no backoff, whatever the budget; an
\* attempt follows a RateLimited failure of the same candidate only when
\* retryOnQuota is true.
C16_QuotaRetryOnlyIfAllowed ==
    /\ [][(AttemptFailed("RateLimited") /\ ~svc.retryOnQuota) => RetryRaises]_vars
    /\ [](\A n \in DOMAIN svc.calls :
             (/\ svc.calls[n].outcome = "RateLimited"
              /\ \E n2 \in DOMAIN svc.calls :
                    n2 > n /\ svc.calls[n2].m = svc.calls[n].m)
             => svc.retryOnQuota)

\* With retryOnQuota false and the largest budget, a RateLimited failure of
\* the first attempt ended withRetry after one attempt.
C16_Witness ==
    /\ ~svc.retryOnQuota
    /\ svc.retries = MaxAttempts
    /\ Len(svc.thrown) >= 1
    /\ Classify(svc.thrown[1]) = "RateLimited"
    /\ svc.thrown[1].at = <<1, 0>>
    /\ Attempts(1) = 1

\* C17: the calls go through the candidate list in order: the first call is
\* attempt 0 of the first candidate; every later call is either the next
\* attempt of the same candidate, within the budget, or attempt 0 of the next
\* candidate after withRetry raised for the previous one; a successful call is
\* the last call and its result is what withModelFallback returns.
C17_CandidatesInOrder ==
    /\ \A n \in DOMAIN svc.calls :
          LET c == svc.calls[n] IN
          /\ c.m \in DOMAIN svc.models
          /\ c.model = svc.models[c.m]
          /\ c.i < svc.retries
          /\ n = 1 => (c.m = 1 /\ c.i = 0)
          /\ n > 1 =>
                LET p == svc.calls[n - 1] IN
                \/ c.m = p.m /\ c.i = p.i + 1 /\ Retryable(p.outcome)
                \/ /\ c.m = p.m + 1 /\ c.i = 0
                   /\ p.outcome \in {"RateLimited", "Transient", "Fatal"}
                   /\ Len(svc.thrown) >= p.m
          /\ c.outcome = "pending" => (n = Len(svc.calls) /\ svc.pc = "attempt")
          /\ c.outcome = "ok" =>
                (n = Len(svc.calls) /\ svc.pc = "returned" /\ svc.result = <<c.m, c.i>>)
    /\ svc.pc = "returned" =>
          (svc.calls # <<>> /\ svc.calls[Len(svc.calls)].outcome = "ok")

\* The first candidate used up a budget of three, and the second candidate
\* succeeded on its own third attempt.
C17_Witness ==
    /\ svc.pc = "returned"
    /\ svc.retries = 3
    /\ Attempts(1) = 3
    /\ svc.result = <<2, 2>>

\* C18: with the candidate list [A, B], when every call to A failed Fatal and
\* every call to B succeeded, withModelFallback returns the result of B's
\* first attempt after exactly one attempt against A.
C18_FatalFallsBack ==
    (/\ svc.pc = "returned"
     /\ svc.models = <<"A", "B">>
     /\ \A n \in DOMAIN svc.calls :
           /\ svc.calls[n].model = "A" => svc.calls[n].outcome = "Fatal"
           /\ svc.calls[n].model = "B" => svc.calls[n].outcome = "ok")
    => /\ Attempts(1) = 1
       /\ Len(svc.calls) = 2
       /\ svc.result = <<2, 0>>

\* With a budget of three, A failed Fatal once and B's first attempt
\* succeeded.
C18_Witness ==
    /\ svc.pc = "returned"
    /\ svc.retries = 3
    /\ svc.models = <<"A", "B">>
    /\ Len(svc.calls) = 2
    /\ svc.calls[1].outcome = "Fatal"
    /\ svc.calls[2].outcome = "ok"

\* C19 as stated: while withModelFallback waits between a failed candidate
\* and the next, the timer is 8000 ms for every failure isRetryableError
\* classifies RateLimited and 1000 ms for every other failure.
C19_FallbackDelayByClass ==
    svc.pc = "cooldown" =>
        svc.wait = IF Classify(svc.lastError) = "RateLimited" THEN 8000 ELSE 1000

\* C20: when every candidate failed, withModelFallback raises the error of
\* the last candidate's final attempt, the error of the last call made.
C20_RaisesLastError ==
    (svc.pc = "raised" /\ svc.calls # <<>>) =>
        LET last == Len(svc.models) IN
        /\ Len(svc.thrown) = last
        /\ svc.error = svc.thrown[last]
        /\ svc.error = svc.caught
        /\ svc.error.at = <<last, Attempts(last) - 1>>
        /\ svc.calls[Len(svc.calls)].m = last
        /\ svc.calls[Len(svc.calls)].outcome = Classify(svc.error)

\* Two candidates failed with errors of different classes and the second
\* one's error was raised.
C20_Witness ==
    /\ svc.pc = "raised"
    /\ Len(svc.models) = 2
    /\ Len(svc.thrown) = 2
    /\ Classify(svc.thrown[1]) # Classify(svc.thrown[2])
    /\ svc.error = svc.thrown[2]

\* ------------------------------------------------------------ C21 .. C30
\* C21: when the credential is absent (empty, whitespace only or the text
\* "undefined"), withModelFallback raises the missing-credential error in its
\* first step: no operation is called for any candidate, no backoff or
\* cooldown timer is started, and nothing is returned.
C21_NoCallWithoutCredential ==
    credential \in {"", " ", "undefined"} =>
        /\ svc.pc \in {"called", "raised"}
        /\ svc.calls = <<>>
        /\ svc.wait = 0
        /\ svc.thrown = <<>>
        /\ svc.pc = "raised" => svc.error = CredentialError

\* The call was made with a whitespace-only credential and has raised the
\* missing-credential error.
C21_Witness ==
    /\ credential = " "
    /\ svc.pc = "raised"
    /\ svc.error = CredentialError
    /\ svc.calls = <<>>

\* PrimaryFailed(r): this step is the catch block of handleConvert for
\* request r, entered because its primary call rejected.
PrimaryFailed(r) ==
    /\ r \in DOMAIN reqs
    /\ reqs[r].pc = "primary"
    /\ reqs'[r].pc = "failed"

\* C22 as stated: a failed primary operation sets one of the three statuses,
\* and when the error is withModelFallback's missing-credential error (the
\* only error a task raises while the credential is absent) it sets the
\* missing-credential status and the missing-credential banner.
C22_StatusByErrorClass ==
    [][\A r \in DOMAIN reqs :
          PrimaryFailed(r) =>
             /\ errorStatus' \in {"retryLater", "keyMissing", "generic"}
             /\ credential \in {"", " ", "undefined"} =>
                   (errorStatus' = "keyMissing" /\ apiKeyMissing')]_vars

\* C23: generateRealisticDentalImage never raises to its caller: once the
\* call has settled the caller holds a data URL when a candidate succeeded and
\* null when withModelFallback raised (all candidates exhausted by rate-limit,
\* transient or no-image failures, or the credential missing); before that
\* the caller holds nothing.
C23_ImageTaskNeverRaises ==
    svc.task = "image" =>
        /\ svc.outcome \in {"pending", "value", "null"}
        /\ svc.pc = "returned" <=> svc.outcome = "value"
        /\ svc.pc = "raised" <=> svc.outcome = "null"

\* Both image candidates failed, the last one for a response without image
\* data, and the caller got null.
C23_Witness ==
    /\ svc.task = "image"
    /\ svc.pc = "raised"
    /\ Len(svc.thrown) = 2
    /\ svc.error.message = NoImageError.message
    /\ svc.outcome = "null"

\* C23, on the caller's side (under Spec): a sub-request that resolved to
\* null changes neither the error status nor the banner, and the batch goes
\* on: it ends only when no sub-request is left.
C23_NullKeepsBatchRunning ==
    [][\A r \in DOMAIN reqs :
          (Settles(r) /\ reqs'[r].outcomes[reqs[r].i] = "null") =>
             /\ errorStatus' = errorStatus
             /\ apiKeyMissing' = apiKeyMissing
             /\ reqs'[r].pc \in {"image", "cooldown", "done"}
             /\ reqs'[r].pc = "done" =>
                   ~\E k \in DOMAIN reqs[r].steps : k > reqs[r].i /\ reqs[r].steps[k]]_vars

\* C24: an image task makes at most 2 attempts against each candidate and a
\* text task at most 3; with their two-candidate lists an image task makes at
\* most 4 backend calls and a text task at most 6.
C24_AttemptBudgets ==
    /\ svc.task = "image" =>
          /\ Len(svc.models) = 2
          /\ \A k \in DOMAIN svc.models : Attempts(k) <= 2
          /\ Len(svc.calls) <= 4
    /\ svc.task = "text" =>
          /\ Len(svc.models) = 2
          /\ \A k \in DOMAIN svc.models : Attempts(k) <= 3
          /\ Len(svc.calls) <= 6

\* A text task has raised after six backend calls, three against each
\* candidate.
C24_Witness ==
    /\ svc.task = "text"
    /\ svc.pc = "raised"
    /\ Len(svc.calls) = 6
    /\ Attempts(1) = 3
    /\ Attempts(2) = 3

\* NoImageFailure: this step is the failure of an image task's attempt whose
\* response held no inline image data.
NoImageFailure ==
    /\ svc.task = "image"
    /\ svc.pc = "attempt"
    /\ svc'.caught.at = <<svc.m, svc.i>>
    /\ svc'.caught.message = "No image data found in response"

\* C25: an image response without inline image data is a Fatal failure for
\* that candidate: withRetry raises at once, with no backoff and no further
\* attempt against the candidate, and the wait before the next candidate, if
\* there is one, is the short one of 1000 ms.
C25_NoImageIsFatal ==
    [][NoImageFailure =>
          /\ svc'.calls[Len(svc.calls)].outcome = "Fatal"
          /\ RetryRaises
          /\ svc'.pc \in {"cooldown", "raised"}
          /\ svc'.pc = "cooldown" => svc'.wait = 1000
          /\ svc'.pc = "raised" => svc.m = Len(svc.models)]_vars

\* The image task's first candidate answered without image data on its
\* first attempt and the task is waiting 1000 ms before the second candidate.
C25_Witness ==
    /\ svc.task = "image"
    /\ svc.pc = "cooldown"
    /\ svc.lastError.message = "No image data found in response"
    /\ svc.lastError.at = <<1, 0>>
    /\ Attempts(1) = 1
    /\ svc.wait = 1000

\* C26: when the research task's response text cannot be parsed (the empty
\* body included), the task does not fail: it returns exactly 3 prompts, each
\* a non-empty text synthesized from the topic (clinical view, anatomical
\* diagram, X-ray).
C26_UnparsableStillThreePrompts ==
    (/\ resp.task = "research"
     /\ resp.pc = "done"
     /\ (resp.text = <<>> \/ ~ParseAIResponse(resp.text).ok))
    => /\ resp.outcome = "value"
       /\ Len(resp.prompts) = 3
       /\ \A k \in 1..3 :
             /\ resp.prompts[k].origin = "topic"
             /\ resp.prompts[k].prefix # ""
             /\ resp.prompts[k].topic = resp.topic
       /\ {resp.prompts[k].prefix : k \in 1..3} =
              {"Dental clinical view of ", "Anatomical diagram of ", "X-ray of "}

\* The research task was given prose inside code fences with no object in
\* it and has returned its three prompts.
C26_Witness ==
    /\ resp.task = "research"
    /\ resp.pc = "done"
    /\ resp.text = <<FENCE, "prose", FENCE>>
    /\ Len(resp.prompts) = 3

\* The image slots of the simulation record in the order of the image
\* requests: clinical, radiological, exploded.
Slots(sd) == <<sd.url, sd.radiologyUrl, sd.explodedUrl>>

\* SimRequest(r): r is a simulation request made from text.
SimRequest(r) ==
    /\ r \in DOMAIN reqs
    /\ reqs[r].tab = "simulation"
    /\ ~reqs[r].upload

\* C27: a successful simulation request publishes its primary result, with
\* the three slots empty, in the step that issues the first image
\* sub-request; it issues exactly 3 sub-requests, for the slots clinical,
\* radiological, exploded in this order, each one only after the previous one
\* resolved; a produced image goes to the slot of its sub-request and the
\* other two slots and the primary result are left as they were.
C27_SimulationSequence ==
    /\ [][\A r \in DOMAIN reqs : SimRequest(r) =>
            /\ (reqs[r].pc = "primary" /\ reqs'[r].pc # "primary" /\ reqs'[r].pc # "failed") =>
                  /\ simulationData'.data = [kind |-> "simulation", req |-> r]
                  /\ Slots(simulationData') = <<NoImg, NoImg, NoImg>>
                  /\ reqs'[r].pc = "image" /\ reqs'[r].i = 1
                  /\ reqs'[r].outcomes = <<"none", "none", "none">>
            /\ Settles(r) =>
                  LET i == reqs[r].i IN
                  /\ reqs'[r].outcomes[i] \in {"image", "null"}
                  /\ \A k \in 1..3 : k # i => reqs'[r].outcomes[k] = reqs[r].outcomes[k]
                  /\ simulationData'.data = simulationData.data
                  /\ \A k \in 1..3 :
                        Slots(simulationData')[k] =
                           IF k = i /\ reqs'[r].outcomes[i] = "image"
                           THEN GenImg(r, i)
                           ELSE Slots(simulationData)[k]
                  /\ reqs'[r].pc # "image"
            /\ (reqs[r].pc # "image" /\ reqs'[r].pc = "image" /\ reqs[r].pc # "primary") =>
                  /\ reqs'[r].i = reqs[r].i + 1
                  /\ reqs[r].outcomes[reqs[r].i] # "none"
            /\ (reqs[r].pc # "done" /\ reqs'[r].pc = "done") =>
                  /\ reqs[r].i = 3
                  /\ \A k \in 1..3 : reqs[r].outcomes[k] # "none"]_vars
    /\ [](\A r \in DOMAIN reqs :
             (SimRequest(r) /\ reqs[r].pc \in {"image", "cooldown"}) =>
                /\ reqs[r].i \in 1..3
                /\ Len(reqs[r].outcomes) = 3
                /\ simulationData.data = [kind |-> "simulation", req |-> r]
                /\ \A k \in 1..3 :
                      /\ k > reqs[r].i => reqs[r].outcomes[k] = "none"
                      /\ k < reqs[r].i => reqs[r].outcomes[k] # "none"
                      /\ reqs[r].outcomes[k] = "image" => Slots(simulationData)[k] = GenImg(r, k)
                      /\ reqs[r].outcomes[k] # "image" => Slots(simulationData)[k] = NoImg)

\* A simulation request is waiting after its third sub-request: the first
\* and third produced an image, the second did not.
C27_Witness ==
    \E r \in DOMAIN reqs :
        /\ SimRequest(r)
        /\ reqs[r].pc = "cooldown"
        /\ reqs[r].outcomes = <<"image", "null", "image">>
        /\ Slots(simulationData) = <<GenImg(r, 1), NoImg, GenImg(r, 3)>>

\* Acts(r): this step belongs to the flow of request r: it accepts r or takes
\* r's flow one step further.
Acts(r) ==
    /\ r \in DOMAIN reqs'
    /\ r \in DOMAIN reqs => Moves(r)

\* C28: a step of a request's flow leaves the record of every other
\* workspace unchanged, and a record changes only in a step of a request of
\* its own workspace.
C28_OwnRecordOnly ==
    [][/\ \A r \in DOMAIN reqs' : Acts(r) =>
             \A tab \in Tabs \ {reqs'[r].tab} : Record(tab)' = Record(tab)
       /\ \A tab \in Tabs : Record(tab)' # Record(tab) =>
             \E r \in DOMAIN reqs' : Acts(r) /\ reqs'[r].tab = tab]_vars

\* A gallery batch has written an image into the gallery items while the
\* simulation record still holds the finished result and images of an
\* earlier simulation request.
C28_Witness ==
    \E r1, r2 \in DOMAIN reqs :
        /\ reqs[r1].tab = "simulation" /\ reqs[r1].pc = "done"
        /\ simulationData.data = [kind |-> "simulation", req |-> r1]
        /\ simulationData.url = GenImg(r1, 1)
        /\ reqs[r2].tab = "gallery"
        /\ galleryItems # <<>>
        /\ galleryItems[1].imageUrl = GenImg(r2, 1)

\* C29: the chat log is append-only: in every step the old log is a prefix
\* of the new one, whatever workspace the step belongs to.
C29_ChatLogAppendOnly ==
    [][/\ Len(messages') >= Len(messages)
       /\ SubSeq(messages', 1, Len(messages)) = messages]_vars

\* The log holds the user and assistant entries of two requests made in
\* different workspaces, in the order in which they were appended.
C29_Witness ==
    /\ Len(messages) = 4
    /\ Len(reqs) = 2
    /\ reqs[1].tab # reqs[2].tab
    /\ [k \in 1..4 |-> messages[k].role] = <<"user", "assistant", "user", "assistant">>
    /\ [k \in 1..4 |-> messages[k].req] = <<1, 1, 2, 2>>

\* C30: the status shown for a failure has a bounded length, whatever the
\* size of the error text; a generic status carries, between its fixed
\* prefix and ellipsis, a prefix of the error text of at most TruncateLen
\* characters.
C30_StatusBounded ==
    failure.pc = "shown" =>
        /\ Len(failure.status) <= Len(StatusPrefix) + TruncateLen + Len(Ellipsis)
        /\ failure.class = "generic" =>
              \E n \in 0..TruncateLen :
                 /\ n <= Len(ErrorText(failure.error))
                 /\ failure.status =
                       StatusPrefix \o SubSeq(ErrorText(failure.error), 1, n) \o Ellipsis

\* A generic failure whose error text is longer than TruncateLen was shown.
C30_Witness ==
    /\ failure.pc = "shown"
    /\ failure.class = "generic"
    /\ Len(ErrorText(failure.error)) > TruncateLen
    /\ Len(failure.status) = Len(StatusPrefix) + TruncateLen + Len(Ellipsis)

\* The text parseAIResponse looks at after line 120, and the positions of
\* its first opening and last closing brace.
Clean(text) == TrimText(RemoveFences(text))
FirstBrace(text) == FirstIndex(Clean(text), "{")
LastBrace(text) == LastIndex(Clean(text), "}")
Parsed == resp.pc = "done" /\ resp.task = "parse"

\* C31: parseAIResponse returns the parse of exactly the span from the first
\* opening brace to the last closing brace of the body without its fence
\* markers; an empty body, or a span that is not well-formed, raises the
\* parse error.
C31_ParseSpan ==
    Parsed =>
        /\ resp.text = <<>> => resp.outcome = "error"
        /\ (resp.text # <<>> /\ FirstBrace(resp.text) # 0 /\ LastBrace(resp.text) # 0) =>
              LET span == SubSeq(Clean(resp.text), FirstBrace(resp.text), LastBrace(resp.text)) IN
              IF FirstBrace(resp.text) < LastBrace(resp.text) /\ JsonParse(span).ok
              THEN resp.outcome = "value" /\ resp.value = JsonParse(span)
              ELSE resp.outcome = "error"

\* The same statement for the bodies whose first opening brace stands before
\* their last closing brace.
C31_ParseOrderedSpan ==
    (Parsed /\ (resp.text = <<>> \/ (0 < FirstBrace(resp.text) /\ FirstBrace(resp.text) < LastBrace(resp.text)))) =>
        C31_ParseSpan

\* A fenced body with prose before and behind the object was parsed.
C31_FencedProseWitness ==
    /\ Parsed
    /\ resp.text = <<FENCE, "prose", "{", "ip3", "}", "prose", FENCE>>
    /\ resp.outcome = "value"
    /\ resp.value = JsonValue("object", "ip3")

\* Positions of the chat log that hold an entry of request r with this role.
EntriesOf(r, role) == {k \in DOMAIN messages : messages[k].req = r /\ messages[k].role = role}

\* A practical submission with an attached image returns at line 354
\* without a backend call.
Called(r) == ~(reqs[r].tab = "practical" /\ reqs[r].upload)

\* The primary call of request r resolved; the handler read its result.
PrimaryResolved(r) == Called(r) /\ reqs[r].pc \notin {"primary", "failed"}
ResultRead(r) == Called(r) /\ reqs[r].pc \notin {"primary", "failed", "threw"}

\* The chat log holds one user entry per request, appended by the step that
\* accepts the submission and leaves the primary call pending, and one
\* assistant entry, behind the user entry, exactly for the requests in
\* answered.
ChatEntries(answered) ==
    /\ \A r \in DOMAIN reqs :
          /\ Cardinality(EntriesOf(r, "user")) = 1
          /\ Cardinality(EntriesOf(r, "assistant")) = IF r \in answered THEN 1 ELSE 0
          /\ \A u \in EntriesOf(r, "user"), a \in EntriesOf(r, "assistant") : u < a
    /\ Cardinality({k \in DOMAIN messages : messages[k].role = "assistant"})
          <= Cardinality({k \in DOMAIN messages : messages[k].role = "user"})

UserEntryFirst ==
    [][Accepted =>
         /\ Len(messages') = Len(messages) + 1
         /\ messages'[Len(messages')].role = "user"
         /\ messages'[Len(messages')].req = Len(reqs')
         /\ Called(Len(reqs))' => reqs'[Len(reqs')].pc = "primary"]_vars

ItemsOf(r) ==
    /\ r \in DOMAIN reqs
    /\ \/ reqs[r].tab = "practical" /\ ~practicalData.isNull /\ practicalData.req = r
       \/ reqs[r].tab = "gallery" /\ GalleryOwner = r
    /\ \A q \in DOMAIN reqs : q > r => reqs[q].tab # reqs[r].tab

ItemsSettled(r) ==
    /\ r \in DOMAIN reqs
    /\ reqs[r].tab = "practical" =>
          \A k \in DOMAIN practicalData.practicalProtocol :
              practicalData.practicalProtocol[k].imageStatus \notin {"pending", "loading"}
    /\ reqs[r].tab = "gallery" =>
          \A k \in DOMAIN galleryItems : galleryItems[k].status \notin {"pending", "loading"}

LaterRequest(r) ==
    /\ r \in DOMAIN reqs
    /\ \E q \in DOMAIN reqs : q > r /\ reqs[q].tab = reqs[r].tab

\* C33: every item created for a practical or gallery primary result
\* eventually is Completed or Failed, unless a new request is submitted to
\* that workspace.
C33_ItemsSettle ==
    \A r \in Requests : ItemsOf(r) ~> (ItemsSettled(r) \/ LaterRequest(r))

\* The same, for as long as the component tree stays mounted.
C33_ItemsSettleWhileMounted ==
    \A r \in Requests : ItemsOf(r) ~> (ItemsSettled(r) \/ LaterRequest(r) \/ crashed)

\* This step neither publishes a primary result in the workspace nor accepts
\* a request for it: the record holds the result of the same request before
\* and after.
SamePractical == ~practicalData.isNull /\ practicalData'.req = practicalData.req
SameGallery == GalleryOwner # 0 /\ GalleryOwner' = GalleryOwner

\* C34: between the publication of a primary result and the next accepted
\* request for the workspace, no step changes the number of items of the
\* workspace record.
C34_ItemCountKept ==
    [][/\ SamePractical =>
             Len(practicalData'.practicalProtocol) = Len(practicalData.practicalProtocol)
       /\ SameGallery => Len(galleryItems') = Len(galleryItems)]_vars

\* The gallery half of C34.
C34_GalleryCountKept ==
    [][SameGallery => Len(galleryItems') = Len(galleryItems)]_vars

\* C35 as stated: every practical step and every gallery item that is
\* Completed carries an image.
C35_CompletedHasImage ==
    /\ \A k \in DOMAIN practicalData.practicalProtocol :
          practicalData.practicalProtocol[k].imageStatus = "completed" =>
              practicalData.practicalProtocol[k].imageUrl # NoImg
    /\ \A k \in DOMAIN galleryItems :
          galleryItems[k].status = "completed" => galleryItems[k].imageUrl # NoImg

\* C35 (amended): every gallery item that is Completed carries an image, and
\* so does every Completed practical step that has a visual prompt; a step
\* without a visual prompt is Completed from its creation and may carry none.
C35_CompletedHasImageOrNoPrompt ==
    /\ \A k \in DOMAIN practicalData.practicalProtocol :
          LET step == practicalData.practicalProtocol[k] IN
          (step.imageStatus = "completed" /\ step.hasPrompt) => step.imageUrl # NoImg
    /\ \A k \in DOMAIN galleryItems :
          galleryItems[k].status = "completed" => galleryItems[k].imageUrl # NoImg

\* A protocol with a Completed step that has no prompt and no image and a
\* Completed step with its image, next to a gallery with a Completed item.
C35_Witness ==
    /\ Len(practicalData.practicalProtocol) = 2
    /\ \E j, k \in 1..2 :
          /\ ~practicalData.practicalProtocol[j].hasPrompt
          /\ practicalData.practicalProtocol[j].imageStatus = "completed"
          /\ practicalData.practicalProtocol[j].imageUrl = NoImg
          /\ practicalData.practicalProtocol[k].hasPrompt
          /\ practicalData.practicalProtocol[k].imageStatus = "completed"
          /\ practicalData.practicalProtocol[k].imageUrl # NoImg
    /\ galleryItems # <<>>
    /\ galleryItems[1].status = "completed"
    /\ galleryItems[1].imageUrl # NoImg

\* ParseFailed: this step is the failure of a text task's attempt whose
\* response could not be parsed.
ParseFailed ==
    /\ svc.task = "text"
    /\ svc.pc = "attempt"
    /\ svc'.caught.at = <<svc.m, svc.i>>
    /\ svc'.caught.message = ParseError.message

\* C36: in a text task a response that fails to parse on candidate k makes
\* withRetry raise at once, with no further attempt against k; if k is not
\* the last candidate the task waits 1000 ms and then makes the first attempt
\* against candidate k + 1; if k is the last candidate the task raises the
\* parse error.
C36_ParseFailureFallsBack ==
    /\ [][ParseFailed =>
            /\ RetryRaises
            /\ svc.m < Len(svc.models) => (svc'.pc = "cooldown" /\ svc'.wait = 1000)
            /\ svc.m = Len(svc.models) =>
                  /\ svc'.pc = "raised"
                  /\ svc'.error.message = ParseError.message
                  /\ svc'.outcome = "error"]_vars
    /\ [][(/\ svc.task = "text"
           /\ svc.pc = "cooldown"
           /\ svc.lastError.message = ParseError.message
           /\ svc' # svc) =>
             /\ svc'.pc = "attempt"
             /\ svc'.m = svc.m + 1
             /\ svc'.i = 0
             /\ Len(svc'.calls) = Len(svc.calls) + 1]_vars

\* The text task's first candidate returned a body that did not parse on its
\* first attempt, and after the wait the second candidate is being tried.
C36_Witness ==
    /\ svc.task = "text"
    /\ svc.pc = "attempt"
    /\ svc.m = 2
    /\ Len(svc.calls) = 2
    /\ svc.thrown = <<svc.lastError>>
    /\ svc.lastError.message = ParseError.message
    /\ svc.lastError.at = <<1, 0>>

\* The number of prompts the response holds: the length of the imagePrompts
\* array of the parsed object, 0 when there is no such array.
PromptsHeld(text) ==
    LET json == ParseAIResponse(text) IN
    IF json.ok /\ json.kind = "object" THEN ArrayLength(json.imagePrompts) ELSE 0

\* C37: whatever the response text holds, the research task returns exactly
\* 3 prompts; when the text parses to an object, they are the first 3 parsed
\* prompts in their order, followed by clinical-view prompts made from the
\* topic where the response holds fewer than 3.
C37_AlwaysThreePrompts ==
    (resp.task = "research" /\ resp.pc = "done") =>
        /\ resp.outcome = "value"
        /\ Len(resp.prompts) = 3
        /\ ParseAIResponse(resp.text).kind = "object" =>
              \A k \in 1..3 :
                 resp.prompts[k] =
                    IF k <= PromptsHeld(resp.text) THEN ParsedPrompt(k)
                    ELSE TopicPrompt("Dental clinical view of ", resp.topic)

\* A response with two prompts was padded with one clinical-view prompt.
C37_Witness ==
    /\ resp.task = "research"
    /\ resp.pc = "done"
    /\ PromptsHeld(resp.text) = 2
    /\ resp.prompts = <<ParsedPrompt(1), ParsedPrompt(2),
                        TopicPrompt("Dental clinical view of ", resp.topic)>>

\* A response with four prompts was cut to its first three.
C37_TruncatedWitness ==
    /\ resp.task = "research"
    /\ resp.pc = "done"
    /\ PromptsHeld(resp.text) = 4
    /\ resp.prompts = <<ParsedPrompt(1), ParsedPrompt(2), ParsedPrompt(3)>>

====
